---- MODULE Spec2Model ----
(***************************************************************************)
(* A model of the extraction pipeline of mr-scraper: the class             *)
(* ExtractionPipeline of src/src/extraction/pipeline.ts, lines 39-259,     *)
(* and the helpers it calls.  One section run (one call of extract) is  *)
(* a sequence of steps; the page extractor, the text extractors, the       *)
(* parser and the markup query are the environment, and every outcome they *)
(* can have (a value, null, an exception) is a nondeterministic choice.    *)
(*                                                                         *)
(* Confidences are hundredths: 0.5 is 50, 1.0 is 100.                      *)
(***************************************************************************)
EXTENDS Integers, Sequences, FiniteSets, TLC

VARIABLES
    config,              \* PipelineConfig: threshold, deduplicateKey, captureHtmlOnFailure, parser
    textExtractors,      \* this.textExtractors, the list the constructor sorted
    pc,                  \* position of the run inside extract
    pageResult,          \* what the page extractor returned: kind and number of candidates / blocks
    i,                   \* index of the candidate (block) the handler's loop is at
    j,                   \* index of the extractor extractText's loop is at
    bestBelowThreshold,  \* extractText's local
    extracted,           \* value extractText returned for candidate i
    items,               \* the items array of the running handler, then of extract
    totalConfidence,     \* the handler's running sum of confidences
    diagnostics,         \* the PipelineDiagnostics object of the run
    calls,               \* history: how often each collaborator was called in this run
    attempts,            \* history: the extractor calls made for candidate i and the texts they gave
    last,                \* history: the most recent call of a collaborator and its outcome
    fn,                  \* the function or method under call outside a section run
    args,                \* its arguments
    result,              \* what it returned (meaningful once step > 0)
    step,                \* how many calls have completed
    versions,            \* SelectorRegistry.versions: version id -> SelectorVersion
    activeVersion,       \* SelectorRegistry.activeVersion
    returned             \* history: the last call of a registry method and what it returned

pipelineVars == << config, textExtractors, pc, pageResult, i, j, bestBelowThreshold,
                   extracted, items, totalConfidence, diagnostics, calls, attempts,
                   last >>

(* everything a section run neither reads nor writes *)
registryVars == << versions, activeVersion, returned >>

aside == << fn, args, result, step, registryVars >>

vars == << pipelineVars, aside >>

-----------------------------------------------------------------------------
(* Bounds of the model *)

MaxItems == 2            \* candidates (or raw blocks) a page extractor returns at most

(* Inputs *)

ExtractorNames == {"aria", "semantic", "raw-text"}
ConfLevels == {20, 40, 60}          \* confidences an extractor may report
Thresholds ==                       \* confidenceThreshold of a configuration: undefined or 0.25
    { [set |-> FALSE, value |-> 0], [set |-> TRUE, value |-> 25] }
Keys == {"k1", "k2"}                \* values of deduplicateKey(item)

(* Program constants *)

DefaultThreshold == 50   \* confidenceThreshold ?? 0.5
HtmlCap == 8000          \* .slice(0, 8000)

Priority(name) ==
    CASE name = "aria" -> 0
      [] name = "semantic" -> 1
      [] name = "raw-text" -> 3

-----------------------------------------------------------------------------
(* Pure helpers *)

Min(a, b) == IF a <= b THEN a ELSE b
Max(a, b) == IF a >= b THEN a ELSE b

RECURSIVE InsertByPriority(_, _)
InsertByPriority(e, s) ==
    IF s = << >> THEN << e >>
    ELSE IF Priority(e) <= Priority(Head(s)) THEN << e >> \o s
    ELSE << Head(s) >> \o InsertByPriority(e, Tail(s))

RECURSIVE SortByPriority(_)
SortByPriority(s) ==
    IF s = << >> THEN << >>
    ELSE InsertByPriority(Head(s), SortByPriority(Tail(s)))

(* the constructor without its sort: the list is used as supplied *)
SortExtractors_AsSupplied(supplied) == supplied

(* [...config.textExtractors].sort((a, b) => a.priority - b.priority) *)
SortExtractors(supplied) == SortByPriority(supplied)

(* addAttempt: push the name unless it is already in the list *)
AddAttempt(names, name) ==
    IF \E k \in 1..Len(names) : names[k] = name
    THEN names
    ELSE Append(names, name)

RECURSIVE DedupFrom(_, _)
DedupFrom(s, seen) ==
    IF s = << >> THEN << >>
    ELSE IF Head(s).key \in seen THEN DedupFrom(Tail(s), seen)
    ELSE << Head(s) >> \o DedupFrom(Tail(s), seen \cup {Head(s).key})

(* a deduplication that keeps the last occurrence of each key *)
DeduplicateItems_KeepLast(s) ==
    LET keep == { k \in DOMAIN s : \A m \in DOMAIN s : m > k => s[m].key # s[k].key }
        Pick(k) == CHOOSE m \in keep : Cardinality({ q \in keep : q <= m }) = k
    IN [k \in 1..Cardinality(keep) |-> s[Pick(k)]]

(* deduplicateItems: filter with a Set of the keys seen so far *)
DeduplicateItems(s) == DedupFrom(s, {})

(* the markup stored whole *)
SliceHtml_Whole(len) == len

(* html.slice(0, 8000), on the length of the string *)
SliceHtml(len) == Min(len, HtmlCap)

RECURSIVE SumConfidence(_)
SumConfidence(s) ==
    IF s = << >> THEN 0 ELSE Head(s).confidence + SumConfidence(Tail(s))

-----------------------------------------------------------------------------
(* Values *)

Null == [by |-> "null", texts |-> 0, confidence |-> 0]
NoCall == [op |-> "none", out |-> "none", cand |-> 0, ext |-> "none", input |-> << >>]

EmptyDiagnostics ==
    [ textExtractorsAttempted |-> << >>,
      textExtractorUsed |-> "null",
      itemsFound |-> 0,
      itemsParsed |-> 0,
      itemsFailed |-> 0,
      avgConfidence |-> [num |-> 0, den |-> 1],
      capturedHtml |-> [set |-> FALSE, length |-> 0] ]

NoCalls == [page |-> 0, parse |-> 0, validate |-> 0, parseRaw |-> 0, dedup |-> 0]

(* the lists the callers supply hold the three extractors of the repository
   (top-card.ts:161, contact-info.ts:187, ...); here in every order *)
SuppliedLists ==
    { s \in [1..Cardinality(ExtractorNames) -> ExtractorNames] :
        \A a, b \in DOMAIN s : a # b => s[a] # s[b] }

Configs ==
    [ confidenceThreshold : Thresholds,
      deduplicateKey : BOOLEAN,
      captureHtmlOnFailure : BOOLEAN,
      parseRaw : BOOLEAN ]

(* registry.ts, lines 14-40: the version the registry is constructed with;
   a SelectorVersion is its id and, per section name, the itemSelectors *)
DEFAULT_VERSION ==
    [ version |-> "v1",
      sections |->
        [ experience |->
            << ".pvs-list__paged-list-item", "li.artdeco-list__item",
               "div[data-view-name=\"profile-component-entity\"]",
               "[componentkey^=\"entity-collection-item\"]",
               "main ul > li", "main ol > li" >>,
          accomplishment |->
            << ".pvs-list__paged-list-item", "li.artdeco-list__item",
               "div[data-view-name=\"profile-component-entity\"]",
               "main ul > li", "main ol > li" >> ] ]

(* no registry method has been called *)
NoReturn == [op |-> "none", arg |-> "none", value |-> FALSE]

(* registry.ts, lines 43-46 and 85: the module's registry after construction *)
RegistryConstructed ==
    /\ versions = [id \in {DEFAULT_VERSION.version} |-> DEFAULT_VERSION]
    /\ activeVersion = DEFAULT_VERSION.version
    /\ returned = NoReturn

(* no function is under call *)
NoFunctionCall ==
    /\ fn = "none"
    /\ args = << >>
    /\ result = << >>
    /\ step = 0

AsideIdle == NoFunctionCall /\ RegistryConstructed

-----------------------------------------------------------------------------
Init ==
    /\ config \in Configs
    /\ \E supplied \in SuppliedLists : textExtractors = SortExtractors(supplied)
    /\ pc = "NotStarted"
    /\ pageResult = [kind |-> "none", n |-> 0]
    /\ i = 0
    /\ j = 0
    /\ bestBelowThreshold = Null
    /\ extracted = Null
    /\ items = << >>
    /\ totalConfidence = 0
    /\ diagnostics = EmptyDiagnostics
    /\ calls = NoCalls
    /\ attempts = << >>
    /\ last = NoCall
    /\ AsideIdle

-----------------------------------------------------------------------------
(* Outcomes of the collaborators *)

PageResults ==
    { [kind |-> "list", n |-> n] : n \in 0..MaxItems }
        \cup { [kind |-> "single", n |-> 1] }
        \cup { [kind |-> "raw", n |-> n] : n \in 0..MaxItems }
        \cup { [kind |-> "throw", n |-> 0] }

CanHandleOutcomes == {"true", "false", "throw"}

ExtractOutcomes ==
    { [tag |-> "throw", texts |-> 0, confidence |-> 0],
      [tag |-> "null", texts |-> 0, confidence |-> 0] }
        \cup [ tag : {"value"}, texts : {0, 1}, confidence : ConfLevels ]

ParseOutcomes ==
    { [tag |-> "throw", key |-> "none", valid |-> "none"],
      [tag |-> "null", key |-> "none", valid |-> "none"] }
        \cup [ tag : {"value"}, key : Keys, valid : {"true", "false", "throw"} ]

(* lengths of the markup innerHTML may resolve to, around the cap *)
HtmlLengths == {0, HtmlCap - 1, HtmlCap, HtmlCap + 1}
HtmlOutcomes ==
    { [tag |-> "locatorThrows", length |-> 0], [tag |-> "rejects", length |-> 0] }
        \cup [ tag : {"resolves"}, length : HtmlLengths ]

-----------------------------------------------------------------------------
(* Decisions of the code, one operator per condition *)

(* const threshold = this.config.confidenceThreshold ?? 0.5 *)
Threshold ==
    IF config.confidenceThreshold.set
    THEN config.confidenceThreshold.value
    ELSE DefaultThreshold

(* if (!extracted || extracted.texts.length === 0) continue *)
IsUsable(out) == out.tag = "value" /\ out.texts > 0

(* if (extracted.confidence >= threshold) return extracted *)
MeetsThreshold(e) == e.confidence >= Threshold

(* >= in place of >: on a tie the later attempt replaces the retained one *)
ReplacesBest_OnTie(e, best) == best = Null \/ e.confidence >= best.confidence

(* if (!bestBelowThreshold || extracted.confidence > bestBelowThreshold.confidence) *)
ReplacesBest(e, best) == best = Null \/ e.confidence > best.confidence

(* extractText without its try/catch: the exception leaves extract *)
AfterExtractorThrow_Propagates(jj) == [pc |-> "Thrown", j |-> jj]

(* the catch of extractText's loop body: the loop goes on with the next extractor *)
AfterExtractorThrow(jj) == [pc |-> "extractText", j |-> jj + 1]

(* = in place of ??=: every accepted extraction writes the field *)
SetUsedOnce_Overwrite(d, name) == [d EXCEPT !.textExtractorUsed = name]

(* textExtractorUsed ??= name *)
SetUsedOnce(d, name) ==
    IF d.textExtractorUsed = "null"
    THEN [d EXCEPT !.textExtractorUsed = name]
    ELSE d

(* a `break` in place of the `continue` / fall-through of the loop *)
AfterCandidate_Breaks(k) == [pc |-> "Deduplicate", i |-> k + 1]

(* a loop that starts over instead of going on to the next candidate *)
AfterCandidate_StartsOver(k) ==
    IF k < pageResult.n
    THEN [pc |-> "LocatingItems", i |-> k + 1]
    ELSE [pc |-> "Deduplicate", i |-> k + 1]

(* a loop that passes over the candidate after the one at hand *)
AfterCandidate_SkipsOne(k) ==
    IF k + 1 < pageResult.n
    THEN [pc |-> "extractText", i |-> k + 2]
    ELSE [pc |-> "Deduplicate", i |-> k + 2]

(* the for-of loops of handleList: after candidate k comes k + 1 or the end *)
AfterCandidate(k) ==
    IF k < pageResult.n
    THEN [pc |-> "extractText", i |-> k + 1]
    ELSE [pc |-> "Deduplicate", i |-> k + 1]

-----------------------------------------------------------------------------
(* extract, lines 50-63: the diagnostics object is created and the page
   extractor is called *)
Extract ==
    /\ pc = "NotStarted"
    /\ diagnostics' = EmptyDiagnostics
    /\ calls' = [calls EXCEPT !.page = @ + 1]
    /\ last' = [op |-> "page", out |-> "pending", cand |-> 0, ext |-> "none", input |-> << >>]
    /\ pc' = "LocatingItems"
    /\ UNCHANGED aside
    /\ UNCHANGED << config, textExtractors, pageResult, i, j, bestBelowThreshold,
                    extracted, items, totalConfidence, attempts >>

(* extract, lines 63-88, and the first lines of the handler chosen by
   pageResult.kind (118-123, 158-160, 182): the await of the page extractor
   resolves or rejects *)
PageExtractorReturns ==
    /\ pc = "LocatingItems"
    /\ \E res \in PageResults :
        /\ pageResult' = res
        /\ last' = [last EXCEPT !.out = res.kind]
        /\ diagnostics' = [diagnostics EXCEPT !.itemsFound = res.n]
        /\ \/ /\ res.kind = "throw"
              /\ pc' = "Thrown"
              /\ UNCHANGED << i, j >>
           \/ /\ res.kind \in {"list", "single"}
              /\ i' = 1
              /\ j' = 1
              /\ pc' = IF res.n = 0 THEN "Deduplicate" ELSE "extractText"
           \/ /\ res.kind = "raw"
              /\ i' = 1
              /\ pc' = "handleRaw"
              /\ UNCHANGED j
    /\ UNCHANGED aside
    /\ UNCHANGED << config, textExtractors, bestBelowThreshold, extracted, items,
                    totalConfidence, calls, attempts >>

(* extractText, lines 223-229: the next extractor is noted as attempted and
   its canHandle is awaited *)
TryExtractor ==
    /\ pc = "extractText"
    /\ j <= Len(textExtractors)
    /\ LET name == textExtractors[j] IN
        /\ diagnostics' =
              [diagnostics EXCEPT !.textExtractorsAttempted = AddAttempt(@, name)]
        /\ \E out \in CanHandleOutcomes :
            /\ last' = [op |-> "canHandle", out |-> out, cand |-> i, ext |-> name,
                        input |-> << >>]
            /\ attempts' = Append(attempts,
                    [ext |-> name, op |-> "canHandle", texts |-> 0, confidence |-> 0])
            /\ \/ /\ out = "true"
                  /\ pc' = "extract"
                  /\ j' = j
               \/ /\ out = "false"
                  /\ pc' = "extractText"
                  /\ j' = j + 1
               \/ /\ out = "throw"
                  /\ pc' = AfterExtractorThrow(j).pc
                  /\ j' = AfterExtractorThrow(j).j
    /\ UNCHANGED aside
    /\ UNCHANGED << config, textExtractors, pageResult, i, bestBelowThreshold,
                    extracted, items, totalConfidence, calls >>

(* extractText, lines 231-249: extract of the extractor that can handle the
   candidate is awaited and its result is judged *)
ExtractorExtract ==
    /\ pc = "extract"
    /\ LET name == textExtractors[j] IN
       \E out \in ExtractOutcomes :
        LET e == [by |-> name, texts |-> out.texts, confidence |-> out.confidence]
            tag == IF out.tag = "value" /\ out.texts = 0 THEN "empty" ELSE out.tag
        IN
        /\ last' = [op |-> "extract", out |-> tag, cand |-> i, ext |-> name, input |-> << >>]
        /\ attempts' = Append(attempts,
                [ext |-> name, op |-> "extract", texts |-> out.texts,
                 confidence |-> IF out.texts > 0 THEN out.confidence ELSE 0])
        /\ \/ /\ out.tag = "throw"
              /\ pc' = AfterExtractorThrow(j).pc
              /\ j' = AfterExtractorThrow(j).j
              /\ UNCHANGED << bestBelowThreshold, extracted, diagnostics >>
           \/ /\ out.tag # "throw"
              /\ ~IsUsable(out)
              /\ pc' = "extractText"
              /\ j' = j + 1
              /\ UNCHANGED << bestBelowThreshold, extracted, diagnostics >>
           \/ /\ IsUsable(out)
              /\ MeetsThreshold(e)
              /\ diagnostics' = SetUsedOnce(diagnostics, name)
              /\ extracted' = e
              /\ pc' = "parse"
              /\ UNCHANGED << j, bestBelowThreshold >>
           \/ /\ IsUsable(out)
              /\ ~MeetsThreshold(e)
              /\ bestBelowThreshold' =
                    IF ReplacesBest(e, bestBelowThreshold) THEN e ELSE bestBelowThreshold
              /\ pc' = "extractText"
              /\ j' = j + 1
              /\ UNCHANGED << extracted, diagnostics >>
    /\ UNCHANGED aside
    /\ UNCHANGED << config, textExtractors, pageResult, i, items, totalConfidence,
                    calls >>

(* extractText, lines 252-257: every extractor was tried and none met the
   threshold; the best attempt below it is returned, or null *)
ExtractTextReturn ==
    /\ pc = "extractText"
    /\ j > Len(textExtractors)
    /\ IF bestBelowThreshold # Null
       THEN /\ diagnostics' = SetUsedOnce(diagnostics, "low-confidence-fallback")
            /\ extracted' = bestBelowThreshold
       ELSE /\ extracted' = Null
            /\ UNCHANGED diagnostics
    /\ pc' = "parse"
    /\ UNCHANGED aside
    /\ UNCHANGED << config, textExtractors, pageResult, i, j, bestBelowThreshold,
                    items, totalConfidence, calls, attempts, last >>

(* the outcome of `parsed && this.config.parser.validate(parsed)` with the
   exceptions it can raise *)
ParseTag(out) ==
    CASE out.tag = "throw" -> "throw"
      [] out.tag = "null" -> "null"
      [] out.valid = "throw" -> "validateThrow"
      [] out.valid = "false" -> "invalid"
      [] OTHER -> "ok"

(* validate is reached only with a non-null parse *)
CallsAfterParse(out) ==
    [calls EXCEPT !.parse = @ + 1,
                  !.validate = IF out.tag = "value" THEN @ + 1 ELSE @]

(* the ParseInput handleList and handleSingle build: the texts extractor `by`
   produced for candidate k *)
ExtractedInput(e, k) == << [src |-> e.by, of |-> k] >>

(* the ParseInput handleRaw builds: texts: [section.heading, section.text] *)
RawInput(k) == << [src |-> "heading", of |-> k], [src |-> "text", of |-> k] >>

(* handleList, lines 123-148: one turn of the loop after extractText returned *)
HandleListItem ==
    /\ pc = "parse"
    /\ pageResult.kind = "list"
    /\ \/ /\ extracted = Null
          /\ diagnostics' = [diagnostics EXCEPT !.itemsFailed = @ + 1]
          /\ pc' = AfterCandidate(i).pc
          /\ i' = AfterCandidate(i).i
          /\ UNCHANGED << items, totalConfidence, calls, last >>
       \/ /\ extracted # Null
          /\ \E out \in ParseOutcomes :
              /\ calls' = CallsAfterParse(out)
              /\ last' = [op |-> "parse", out |-> ParseTag(out), cand |-> i,
                          ext |-> extracted.by, input |-> ExtractedInput(extracted, i)]
              /\ \/ /\ ParseTag(out) \in {"throw", "validateThrow"}
                    /\ pc' = "Thrown"
                    /\ UNCHANGED << i, items, totalConfidence, diagnostics >>
                 \/ /\ ParseTag(out) = "ok"
                    /\ items' = Append(items, [key |-> out.key, cand |-> i,
                                               confidence |-> extracted.confidence])
                    /\ diagnostics' = [diagnostics EXCEPT !.itemsParsed = @ + 1]
                    /\ totalConfidence' = totalConfidence + extracted.confidence
                    /\ pc' = AfterCandidate(i).pc
                    /\ i' = AfterCandidate(i).i
                 \/ /\ ParseTag(out) \in {"null", "invalid"}
                    /\ diagnostics' = [diagnostics EXCEPT !.itemsFailed = @ + 1]
                    /\ pc' = AfterCandidate(i).pc
                    /\ i' = AfterCandidate(i).i
                    /\ UNCHANGED << items, totalConfidence >>
    /\ j' = 1
    /\ bestBelowThreshold' = Null
    /\ extracted' = Null
    /\ attempts' = << >>
    /\ UNCHANGED aside
    /\ UNCHANGED << config, textExtractors, pageResult >>

(* handleSingle, lines 160-178, after extractText returned *)
HandleSingleItem ==
    /\ pc = "parse"
    /\ pageResult.kind = "single"
    /\ \/ /\ extracted = Null
          /\ diagnostics' = [diagnostics EXCEPT !.itemsFailed = 1]
          /\ pc' = "Deduplicate"
          /\ UNCHANGED << items, totalConfidence, calls, last >>
       \/ /\ extracted # Null
          /\ \E out \in ParseOutcomes :
              /\ calls' = CallsAfterParse(out)
              /\ last' = [op |-> "parse", out |-> ParseTag(out), cand |-> i,
                          ext |-> extracted.by, input |-> ExtractedInput(extracted, i)]
              /\ \/ /\ ParseTag(out) \in {"throw", "validateThrow"}
                    /\ pc' = "Thrown"
                    /\ UNCHANGED << items, totalConfidence, diagnostics >>
                 \/ /\ ParseTag(out) = "ok"
                    /\ items' = << [key |-> out.key, cand |-> i,
                                    confidence |-> extracted.confidence] >>
                    /\ diagnostics' = [diagnostics EXCEPT !.itemsParsed = 1]
                    /\ totalConfidence' = extracted.confidence
                    /\ pc' = "Deduplicate"
                 \/ /\ ParseTag(out) \in {"null", "invalid"}
                    /\ diagnostics' = [diagnostics EXCEPT !.itemsFailed = 1]
                    /\ pc' = "Deduplicate"
                    /\ UNCHANGED << items, totalConfidence >>
    /\ extracted' = Null
    /\ attempts' = << >>
    /\ UNCHANGED aside
    /\ UNCHANGED << config, textExtractors, pageResult, i, j, bestBelowThreshold >>

(* what a raw-capable parser may return for the blocks: any list of records,
   shorter or longer than the list of blocks *)
RawItemLists ==
    UNION { [1..n -> Keys] : n \in 0..MaxItems }

(* a type guard that never recognises a raw-capable parser *)
HasParseRaw_Never == FALSE

(* hasParseRaw, lines 267-269 *)
HasParseRaw == config.parseRaw

(* handleRaw, lines 184-189: the parser is raw-capable *)
HandleRawParseRaw ==
    /\ pc = "handleRaw"
    /\ HasParseRaw
    /\ calls' = [calls EXCEPT !.parseRaw = @ + 1]
    /\ \/ /\ last' = [op |-> "parseRaw", out |-> "throw", cand |-> 0, ext |-> "none",
                      input |-> [k \in 1..pageResult.n |-> k]]
          /\ pc' = "Thrown"
          /\ UNCHANGED << items, diagnostics >>
       \/ \E keys \in RawItemLists :
          /\ last' = [op |-> "parseRaw", out |-> "ok", cand |-> 0, ext |-> "none",
                      input |-> [k \in 1..pageResult.n |-> k]]
          /\ items' = [k \in 1..Len(keys) |->
                          [key |-> keys[k], cand |-> k, confidence |-> 0]]
          /\ diagnostics' =
                [diagnostics EXCEPT !.itemsParsed = Len(keys),
                                    !.itemsFailed = Max(0, pageResult.n - Len(keys))]
          /\ pc' = "Deduplicate"
    /\ UNCHANGED aside
    /\ UNCHANGED << config, textExtractors, pageResult, i, j, bestBelowThreshold,
                    extracted, totalConfidence, attempts >>

(* handleRaw, lines 191-211: one turn of the degraded loop over the blocks *)
HandleRawBlock ==
    /\ pc = "handleRaw"
    /\ ~HasParseRaw
    /\ i <= pageResult.n
    /\ \E out \in ParseOutcomes :
        /\ calls' = CallsAfterParse(out)
        /\ last' = [op |-> "parse", out |-> ParseTag(out), cand |-> i, ext |-> "none",
                    input |-> RawInput(i)]
        /\ \/ /\ ParseTag(out) \in {"throw", "validateThrow"}
              /\ pc' = "Thrown"
              /\ UNCHANGED << i, items, diagnostics >>
           \/ /\ ParseTag(out) = "ok"
              /\ items' = Append(items, [key |-> out.key, cand |-> i, confidence |-> 0])
              /\ diagnostics' = [diagnostics EXCEPT !.itemsParsed = @ + 1]
              /\ i' = i + 1
              /\ pc' = "handleRaw"
           \/ /\ ParseTag(out) \in {"null", "invalid"}
              /\ diagnostics' = [diagnostics EXCEPT !.itemsFailed = @ + 1]
              /\ i' = i + 1
              /\ pc' = "handleRaw"
              /\ UNCHANGED items
    /\ UNCHANGED aside
    /\ UNCHANGED << config, textExtractors, pageResult, j, bestBelowThreshold,
                    extracted, totalConfidence, attempts >>

(* handleRaw, line 213: the loop over the blocks is over *)
HandleRawReturn ==
    /\ pc = "handleRaw"
    /\ ~HasParseRaw
    /\ i > pageResult.n
    /\ pc' = "Deduplicate"
    /\ UNCHANGED aside
    /\ UNCHANGED << config, textExtractors, pageResult, i, j, bestBelowThreshold,
                    extracted, items, totalConfidence, diagnostics, calls, attempts,
                    last >>

(* diagnostics.avgConfidence = totalConfidence / items.length, as a fraction *)
AvgConfidence(total, its) == [num |-> total, den |-> Len(its)]

(* if (this.config.captureHtmlOnFailure && items.length === 0) *)
ShouldCapture(its) == config.captureHtmlOnFailure /\ Len(its) = 0

(* extract, lines 90-98: deduplication, then the average confidence *)
Deduplicate ==
    /\ pc = "Deduplicate"
    /\ items' = IF config.deduplicateKey THEN DeduplicateItems(items) ELSE items
    /\ calls' = [calls EXCEPT !.dedup = IF config.deduplicateKey THEN @ + 1 ELSE @]
    /\ diagnostics' =
          IF Len(items') > 0
          THEN [diagnostics EXCEPT !.avgConfidence = AvgConfidence(totalConfidence, items')]
          ELSE diagnostics
    /\ pc' = IF ShouldCapture(items') THEN "Capture" ELSE "Return"
    /\ UNCHANGED aside
    /\ UNCHANGED << config, textExtractors, pageResult, i, j, bestBelowThreshold,
                    extracted, totalConfidence, attempts, last >>

(* extract, lines 98-108: the best-effort capture of the markup of main *)
CaptureHtml ==
    /\ pc = "Capture"
    /\ \E out \in HtmlOutcomes :
        /\ last' = [op |-> "innerHTML", out |-> out.tag, cand |-> 0, ext |-> "none",
                    input |-> << >>]
        /\ \/ /\ out.tag = "locatorThrows"
              /\ UNCHANGED diagnostics
           \/ /\ out.tag = "rejects"
              /\ diagnostics' =
                    [diagnostics EXCEPT !.capturedHtml =
                        [set |-> TRUE, length |-> SliceHtml(0)]]
           \/ /\ out.tag = "resolves"
              /\ diagnostics' =
                    [diagnostics EXCEPT !.capturedHtml =
                        [set |-> TRUE, length |-> SliceHtml(out.length)]]
    /\ pc' = "Return"
    /\ UNCHANGED aside
    /\ UNCHANGED << config, textExtractors, pageResult, i, j, bestBelowThreshold,
                    extracted, items, totalConfidence, calls, attempts >>

(* extract, lines 110-111: return { items, diagnostics } *)
Return ==
    /\ pc = "Return"
    /\ pc' = "Done"
    /\ UNCHANGED aside
    /\ UNCHANGED << config, textExtractors, pageResult, i, j, bestBelowThreshold,
                    extracted, items, totalConfidence, diagnostics, calls, attempts,
                    last >>

Next ==
    \/ Extract
    \/ PageExtractorReturns
    \/ TryExtractor
    \/ ExtractorExtract
    \/ ExtractTextReturn
    \/ HandleListItem
    \/ HandleSingleItem
    \/ HandleRawParseRaw
    \/ HandleRawBlock
    \/ HandleRawReturn
    \/ Deduplicate
    \/ CaptureHtml
    \/ Return

Spec == Init /\ [][Next]_vars

-----------------------------------------------------------------------------
(* Properties of the run *)

(* the attempts that produced non-empty texts for the candidate at hand *)
Usable == { a \in DOMAIN attempts : attempts[a].op = "extract" /\ attempts[a].texts > 0 }

(* the attempts that produced non-empty texts with confidence >= threshold *)
Hits == { a \in Usable : attempts[a].confidence >= Threshold }

(* extractText has returned for candidate i and the handler has not yet
   looked at the result *)
ExtractTextReturned == pc = "parse"

(* C1: for every candidate the extractors are invoked in ascending priority
   number, whatever the order of the supplied list, and no canHandle or
   extract is invoked for the candidate after an extract that returned
   non-empty texts with confidence >= threshold. *)
C1_StrategyPrecedence ==
    /\ \A a, b \in DOMAIN attempts :
          a < b => Priority(attempts[a].ext) <= Priority(attempts[b].ext)
    /\ \A a \in Hits : a = Len(attempts)

(* the first extractor of three met the threshold for the second candidate *)
C1_Witness ==
    /\ ExtractTextReturned
    /\ i = 2
    /\ Len(textExtractors) = 3
    /\ Hits = {2}
    /\ attempts[2].ext = "aria"

(* C2: when no attempt reaches the threshold but at least one has non-empty
   texts, extractText returns, instead of null, the attempt of highest
   confidence, and on a tie the earliest of them. *)
C2_FallbackCompleteness ==
    (ExtractTextReturned /\ Hits = {} /\ Usable # {}) =>
        /\ extracted # Null
        /\ \E a \in Usable :
            /\ extracted = [by |-> attempts[a].ext, texts |-> attempts[a].texts,
                            confidence |-> attempts[a].confidence]
            /\ \A b \in Usable :
                /\ attempts[b].confidence <= attempts[a].confidence
                /\ b < a => attempts[b].confidence < attempts[a].confidence

(* two attempts below the threshold tie and the earlier one is returned *)
C2_Witness ==
    /\ ExtractTextReturned
    /\ Hits = {}
    /\ \E a, b \in Usable :
        /\ a < b
        /\ attempts[a].confidence = attempts[b].confidence
        /\ extracted.by = attempts[a].ext
        /\ \A c \in Usable : attempts[c].confidence <= attempts[a].confidence

(* C3: extract never throws, whatever the page extractor, the text
   extractors and the parser do. *)
C3_NeverThrows == pc # "Thrown"

(* C4: an exception of canHandle or extract counts as "nothing produced":
   the loop goes on with the next extractor for the same candidate, the
   attempt retained as best below the threshold is kept, the exception does
   not leave extract, and a list run that returns has been through every
   candidate. *)
ExtractorThrowStep ==
    /\ Len(attempts') = Len(attempts) + 1
    /\ last'.op \in {"canHandle", "extract"}
    /\ last'.out = "throw"

C4_ExtractorThrowIsolated ==
    /\ [][ExtractorThrowStep =>
            /\ pc' = "extractText"
            /\ i' = i
            /\ j' = j + 1
            /\ bestBelowThreshold' = bestBelowThreshold
            /\ items' = items]_vars
    /\ [](pc = "Thrown" => last.op \notin {"canHandle", "extract"})
    /\ []((pc = "Done" /\ pageResult.kind = "list") => i = pageResult.n + 1)

(* an extractor threw for the first of two candidates while an attempt was
   retained, and a further extractor is still to be tried *)
C4_Witness ==
    /\ last.op \in {"canHandle", "extract"}
    /\ last.out = "throw"
    /\ bestBelowThreshold # Null
    /\ pc = "extractText"
    /\ j <= Len(textExtractors)
    /\ i = 1
    /\ pageResult.n = 2

(* C5: in a list run a candidate whose parse returns null or whose validate
   returns false is not added to items and raises itemsFailed by exactly one,
   and the run goes on with the text extraction of the next candidate. *)
ParseRejectsStep ==
    /\ pageResult.kind = "list"
    /\ calls'.parse = calls.parse + 1
    /\ last'.out \in {"null", "invalid"}

C5_ParseRejectionIsolated ==
    [][ParseRejectsStep =>
        /\ items' = items
        /\ diagnostics'.itemsFailed = diagnostics.itemsFailed + 1
        /\ diagnostics'.itemsParsed = diagnostics.itemsParsed
        /\ IF i < pageResult.n
           THEN pc' = "extractText" /\ i' = i + 1 /\ j' = 1 /\ bestBelowThreshold' = Null
           ELSE pc' = "Deduplicate"]_vars

(* the first candidate was rejected by the parser and the second is being
   extracted *)
C5_Witness ==
    /\ pageResult.kind = "list"
    /\ last.op = "parse"
    /\ last.out \in {"null", "invalid"}
    /\ last.cand = 1
    /\ pc = "extractText"
    /\ i = 2
    /\ diagnostics.itemsFailed = 1
    /\ items = << >>

(* C6: on return avgConfidence is the mean of the extraction confidences of
   the items returned, 0 when there are none, and so lies in [0, 1]. *)
C6_AvgIsMeanOfReturned ==
    pc = "Done" =>
        LET avg == diagnostics.avgConfidence IN
        IF items = << >>
        THEN avg.num = 0
        ELSE /\ avg.num * Len(items) = SumConfidence(items) * avg.den
             /\ 0 <= avg.num
             /\ avg.num <= 100 * avg.den

(* C7: the phases of a run, and their order *)
PhaseOf(at) ==
    CASE at = "NotStarted" -> "NotStarted"
      [] at = "LocatingItems" -> "LocatingItems"
      [] at \in {"extractText", "extract"} -> "ExtractingText"
      [] at \in {"parse", "handleRaw"} -> "Parsing"
      [] at \in {"Deduplicate", "Capture", "Return"} -> "Deduplicating"
      [] at \in {"Done", "Thrown"} -> "Done"

PhaseRank(at) ==
    CASE PhaseOf(at) = "NotStarted" -> 0
      [] PhaseOf(at) = "LocatingItems" -> 1
      [] PhaseOf(at) = "ExtractingText" -> 2
      [] PhaseOf(at) = "Parsing" -> 3
      [] PhaseOf(at) = "Deduplicating" -> 4
      [] PhaseOf(at) = "Done" -> 5

ExtractorCallStep == Len(attempts') = Len(attempts) + 1
ParserCallStep == calls'.parse > calls.parse \/ calls'.parseRaw > calls.parseRaw

(* what every step of a run keeps, in the claim as stated and as amended *)
PhaseStepCommon ==
    /\ calls'.page <= 1
    /\ (pc # "NotStarted") => calls.page = 1
    /\ ExtractorCallStep => (calls.page = 1 /\ pageResult.kind \in {"list", "single"})
    /\ ParserCallStep => (calls.dedup = 0 /\ PhaseOf(pc) = "Parsing")
    /\ (calls'.dedup > calls.dedup) => PhaseOf(pc) = "Deduplicating"
    /\ PhaseOf(pc) # "Done"

(* C7 as stated: the phases NotStarted, LocatingItems, ExtractingText,
   Parsing, Deduplicating, Done follow each other and never go back; the page
   extractor is invoked once, before any text extractor; no text extractor is
   invoked once the parser has been called; deduplication follows the last
   parse; nothing happens after Done. *)
C7_PhasesNeverGoBack ==
    [][/\ PhaseStepCommon
       /\ PhaseRank(pc') >= PhaseRank(pc)
       /\ ExtractorCallStep => calls.parse = 0]_vars

(* C7 as amended: the same, except that a list run goes back from Parsing to
   ExtractingText once for every further candidate, so that text extraction
   and parsing alternate candidate by candidate; the text extraction of a
   candidate is finished before that candidate is parsed. *)
NextCandidateStep ==
    /\ pageResult.kind = "list"
    /\ pc = "parse"
    /\ pc' = "extractText"
    /\ i' = i + 1
    /\ i' <= pageResult.n

C7_PhasesPerCandidate ==
    [][/\ PhaseStepCommon
       /\ PhaseRank(pc') >= PhaseRank(pc) \/ NextCandidateStep
       /\ ExtractorCallStep => calls.parse < i
       /\ (ParserCallStep /\ pageResult.kind \in {"list", "single"}) =>
             (ExtractTextReturned /\ extracted # Null /\ last.cand = i)]_vars

(* a text extractor is at work on the second candidate after the first was
   parsed *)
C7_Witness ==
    /\ pc = "extract"
    /\ i = 2
    /\ calls.parse = 1
    /\ attempts # << >>

(* C8: with deduplicateKey the items returned are the first occurrence of
   each key, in their original relative order; without it the parsed items
   are returned unchanged. *)
FirstOccurrences(s) ==
    { k \in DOMAIN s : \A m \in DOMAIN s : m < k => s[m].key # s[k].key }

IsFirstOccurrencesOf(out, in) ==
    LET firsts == FirstOccurrences(in) IN
    /\ Len(out) = Cardinality(firsts)
    /\ \A k \in firsts : out[Cardinality({ m \in firsts : m <= k })] = in[k]

C8_DedupKeepsFirstInOrder ==
    [][pc = "Deduplicate" =>
        IF config.deduplicateKey
        THEN IsFirstOccurrencesOf(items', items)
        ELSE items' = items]_vars

(* deduplication removed the second of two parsed items *)
C8_Witness ==
    /\ pc = "Done"
    /\ calls.dedup = 1
    /\ diagnostics.itemsParsed = 2
    /\ Len(items) = 1
    /\ items[1].cand = 1

(* C9: capturedHtml is set only if captureHtmlOnFailure is on and the final
   item list is empty, it has at most 8000 characters, and a markup query
   that fails does not make extract throw. *)
C9_CaptureBoundedBestEffort ==
    /\ diagnostics.capturedHtml.set =>
          /\ config.captureHtmlOnFailure
          /\ items = << >>
          /\ calls.dedup > 0 \/ ~config.deduplicateKey
          /\ diagnostics.capturedHtml.length <= HtmlCap
    /\ (last.op = "innerHTML" /\ last.out \in {"locatorThrows", "rejects"}) =>
          pc \in {"Return", "Done"}

(* markup longer than the cap was captured *)
C9_Witness ==
    /\ pc = "Done"
    /\ last.op = "innerHTML"
    /\ last.out = "resolves"
    /\ diagnostics.capturedHtml.set
    /\ diagnostics.capturedHtml.length = HtmlCap

(* C10: for a raw page result no text extractor is invoked; a parser with
   parseRaw gets one parseRaw call with all blocks and no parse call;
   otherwise parse is called once per block, in block order, with texts
   [heading, text], and a result is kept only if validate accepts it. *)
RawHandled == pc \in {"Deduplicate", "Capture", "Return", "Done"}

C10_RawDelegation ==
    pageResult.kind = "raw" =>
        /\ attempts = << >>
        /\ diagnostics.textExtractorsAttempted = << >>
        /\ config.parseRaw =>
              /\ calls.parse = 0
              /\ calls.parseRaw <= 1
              /\ RawHandled =>
                    /\ calls.parseRaw = 1
                    /\ last.op = "innerHTML" \/
                          (last.op = "parseRaw" /\ last.input = [k \in 1..pageResult.n |-> k])
        /\ ~config.parseRaw =>
              /\ calls.parseRaw = 0
              /\ calls.parse <= pageResult.n
              /\ RawHandled => calls.parse = pageResult.n
              /\ last.op = "parse" =>
                    /\ last.cand = calls.parse
                    /\ last.input = << [src |-> "heading", of |-> last.cand],
                                       [src |-> "text", of |-> last.cand] >>
                    /\ pc = "handleRaw" =>
                          ((\E k \in DOMAIN items : items[k].cand = last.cand)
                              <=> last.out = "ok")
              /\ Len(items) <= calls.validate

(* two blocks were parsed one by one and validate rejected one of them *)
C10_Witness ==
    /\ pageResult.kind = "raw"
    /\ ~config.parseRaw
    /\ pc = "Done"
    /\ calls.parse = 2
    /\ calls.validate = 2
    /\ Len(items) = 1

-----------------------------------------------------------------------------
(* The text helpers of the extractors: src/unnamed/part_018 (shared.ts) and
   the three extract methods.  A string is the sequence of its characters. *)

MaxTexts == 3            \* texts (lines) an element holds at most

(* String.prototype.trim, with the blank as the only white space *)
RECURSIVE TrimStart(_)
TrimStart(s) == IF s # << >> /\ Head(s) = " " THEN TrimStart(Tail(s)) ELSE s

RECURSIVE TrimEnd(_)
TrimEnd(s) ==
    IF s # << >> /\ s[Len(s)] = " " THEN TrimEnd(SubSeq(s, 1, Len(s) - 1)) ELSE s

Trim(s) == TrimEnd(TrimStart(s))

(* String.prototype.includes *)
Includes(s, sub) ==
    \E k \in 0..(Len(s) - Len(sub)) : SubSeq(s, k + 1, k + Len(sub)) = sub

(* the texts an element's nodes can hold; "abcd" is the shortest string the
   overlap rule of deduplicateTexts applies to *)
TextUniverse ==
    { << >>,
      << " ", " " >>,
      << "a", "b" >>,
      << "a", "b", "c" >>,
      << "a", "b", "c", "d" >>,
      << " ", "a", "b", "c", "d" >>,
      << "b", "c", "d", "e" >>,
      << "a", "b", "c", "d", "e" >>,
      << "x", "y" >>,
      << "x", "a", "b", "c", "d", "e", "x" >> }

TextLists ==
    UNION { [1..n -> TextUniverse] : n \in 0..MaxTexts }

DefaultMaxLength == 500               \* maxLength: number = 500
MAX_FALLBACK_TEXT_LENGTH == 500       \* constants.ts
MaxLengths == {4, 6, DefaultMaxLength}

(* part_018, lines 17-26: the inner loop over seen; the members of seen
   are the texts pushed so far, in insertion order *)
IsSubstring_OneWay(text, seen) ==
    \E k \in DOMAIN seen : Len(seen[k]) > 3 /\ Includes(text, seen[k])

IsSubstring(text, seen) ==
    \E k \in DOMAIN seen :
        \/ Len(seen[k]) > 3 /\ Includes(text, seen[k])
        \/ Len(text) > 3 /\ Includes(seen[k], text)

(* part_018, line 30: deduplicated.push(text) *)
Push_Unshift(deduplicated, text) == << text >> \o deduplicated

Push(deduplicated, text) == Append(deduplicated, text)

(* part_018, lines 11-32: the loop of deduplicateTexts over the remaining
   texts *)
RECURSIVE DeduplicateTextsFrom(_, _, _)
DeduplicateTextsFrom(texts, maxLength, deduplicated) ==
    IF texts = << >> THEN deduplicated
    ELSE
        LET text == Trim(Head(texts))
            skip == \/ text = << >>
                    \/ Len(text) > maxLength
                    \/ \E k \in DOMAIN deduplicated : deduplicated[k] = text
            kept == IF skip \/ IsSubstring(text, deduplicated)
                    THEN deduplicated
                    ELSE Push(deduplicated, text)
        IN DeduplicateTextsFrom(Tail(texts), maxLength, kept)

(* part_018, lines 4-35 *)
DeduplicateTexts(texts, maxLength) == DeduplicateTextsFrom(texts, maxLength, << >>)

(* a text extractor's return value *)
NullText == [kind |-> "null", texts |-> << >>]
ExtractedText(texts) == [kind |-> "value", texts |-> texts]

(* textContent() of a node is pushed only if it is truthy: not the empty
   string *)
NonEmpty(text) == text # << >>

(* aria-extractor.ts, lines 45-57 and 22-37: element is the textContent of
   the aria-hidden spans *)
ExtractAriaTexts(spans) == DeduplicateTexts(SelectSeq(spans, NonEmpty), 500)

AriaExtract(element) ==
    LET texts == ExtractAriaTexts(element.spans)
    IN IF Len(texts) = 0 THEN NullText ELSE ExtractedText(texts)

(* semantic-extractor.ts, lines 35-62 and 18-27: headings holds the
   textContent of the headings, then of the paragraphs *)
LongerThanOne(text) == Len(text) > 1

ExtractSemanticTexts(element) ==
    LET deduped == DeduplicateTexts(SelectSeq(element.headings, NonEmpty), DefaultMaxLength)
    IN IF Len(deduped) > 0 THEN deduped
       ELSE SelectSeq(DeduplicateTexts(SelectSeq(element.spans, NonEmpty), DefaultMaxLength),
                   LongerThanOne)

SemanticExtract(element) ==
    LET texts == ExtractSemanticTexts(element)
    IN IF Len(texts) = 0 THEN NullText ELSE ExtractedText(texts)

(* raw-text-extractor.ts, lines 22-29: element.lines is innerText split at
   the line breaks *)
TrimAll(lines) == [k \in DOMAIN lines |-> Trim(lines[k])]
IsFallbackLine_AnyLength(line) == Len(line) > 0
IsFallbackLine(line) == Len(line) > 0 /\ Len(line) < MAX_FALLBACK_TEXT_LENGTH

(* raw-text-extractor.ts, lines 35-40: a line equal to the last one pushed
   is not pushed *)
RECURSIVE CollapseAdjacent(_, _)
CollapseAdjacent(lines, deduplicated) ==
    IF lines = << >> THEN deduplicated
    ELSE CollapseAdjacent(Tail(lines),
            IF deduplicated # << >> /\ deduplicated[Len(deduplicated)] = Head(lines)
            THEN deduplicated
            ELSE Append(deduplicated, Head(lines)))

(* raw-text-extractor.ts, lines 15-50 *)
RawTextExtract(element) ==
    LET lines == SelectSeq(TrimAll(element.lines), IsFallbackLine)
        deduplicated == CollapseAdjacent(lines, << >>)
    IN IF Len(lines) = 0 \/ Len(deduplicated) = 0
       THEN NullText
       ELSE ExtractedText(deduplicated)

-----------------------------------------------------------------------------
(* Calls of the text helpers.  No section run is in progress: the pipeline
   variables keep the value below. *)

PipelineIdle ==
    /\ config = [ confidenceThreshold |-> [set |-> FALSE, value |-> 0],
                  deduplicateKey |-> FALSE,
                  captureHtmlOnFailure |-> FALSE,
                  parseRaw |-> FALSE ]
    /\ textExtractors = << >>
    /\ pc = "NotStarted"
    /\ pageResult = [kind |-> "none", n |-> 0]
    /\ i = 0
    /\ j = 0
    /\ bestBelowThreshold = Null
    /\ extracted = Null
    /\ items = << >>
    /\ totalConfidence = 0
    /\ diagnostics = EmptyDiagnostics
    /\ calls = NoCalls
    /\ attempts = << >>
    /\ last = NoCall

(* the elements the semantic extractor is given: the spans are read only when
   the headings and paragraphs give no text *)
SemanticElements ==
    { [headings |-> h, spans |-> << >>] : h \in TextLists }
      \cup { [headings |-> h, spans |-> sp] :
                h \in { << >>, << << " ", " " >> >> }, sp \in TextLists }

(* the lines of a node's rendered text: the texts above, a line one short
   of MAX_FALLBACK_TEXT_LENGTH and a line of that length *)
LongLine(n) == [k \in 1..n |-> "x"]
RawLines ==
    TextUniverse \cup { LongLine(MAX_FALLBACK_TEXT_LENGTH - 1), LongLine(MAX_FALLBACK_TEXT_LENGTH) }
RawLineLists == UNION { [1..n -> RawLines] : n \in 0..MaxTexts }

InitTexts ==
    /\ PipelineIdle
    /\ RegistryConstructed
    /\ step = 0
    /\ result = << >>
    /\ \/ /\ fn = "deduplicateTexts"
          /\ \E t \in TextLists, m \in MaxLengths :
                args = [texts |-> t, maxLength |-> m, input |-> t]
       \/ /\ fn = "aria"
          /\ args \in [spans : TextLists]
       \/ /\ fn = "semantic"
          /\ args \in SemanticElements
       \/ /\ fn = "raw-text"
          /\ args \in [lines : RawLineLists]

CallDeduplicateTexts ==
    /\ fn = "deduplicateTexts"
    /\ step = 0
    /\ result' = DeduplicateTexts(args.texts, args.maxLength)
    /\ step' = 1
    /\ UNCHANGED << fn, args, registryVars, pipelineVars >>

(* the list returned is given to deduplicateTexts again *)
CallDeduplicateTextsAgain ==
    /\ fn = "deduplicateTexts"
    /\ step = 1
    /\ args' = [args EXCEPT !.texts = result]
    /\ result' = DeduplicateTexts(result, args.maxLength)
    /\ step' = 2
    /\ UNCHANGED << fn, registryVars, pipelineVars >>

CallAriaExtract ==
    /\ fn = "aria"
    /\ step = 0
    /\ result' = AriaExtract(args)
    /\ step' = 1
    /\ UNCHANGED << fn, args, registryVars, pipelineVars >>

CallSemanticExtract ==
    /\ fn = "semantic"
    /\ step = 0
    /\ result' = SemanticExtract(args)
    /\ step' = 1
    /\ UNCHANGED << fn, args, registryVars, pipelineVars >>

CallRawTextExtract ==
    /\ fn = "raw-text"
    /\ step = 0
    /\ result' = RawTextExtract(args)
    /\ step' = 1
    /\ UNCHANGED << fn, args, registryVars, pipelineVars >>

NextTexts ==
    \/ CallDeduplicateTexts
    \/ CallDeduplicateTextsAgain
    \/ CallAriaExtract
    \/ CallSemanticExtract
    \/ CallRawTextExtract

SpecTexts == InitTexts /\ [][NextTexts]_vars

(* an extractor has returned an ExtractedText *)
Returned(name) == fn = name /\ step = 1 /\ result.kind = "value"

NoTwoEqual(texts) ==
    \A a, b \in DOMAIN texts : a # b => texts[a] # texts[b]

(* C11, as stated: every ExtractedText any of the three extractors returns
   has texts with no two equal elements and no element that is a substring of
   another element *)
C11_NoDuplicateNoSubstring ==
    \A name \in ExtractorNames :
        Returned(name) =>
            /\ NoTwoEqual(result.texts)
            /\ \A a, b \in DOMAIN result.texts :
                   a # b => ~Includes(result.texts[b], result.texts[a])

(* C11, amended: the texts of the aria and of the semantic extractor have no
   two equal elements and no element longer than 3 characters that is a
   substring of another element; the texts of the raw-text extractor have no
   two adjacent elements that are equal *)
C11_OverlapCollapsed ==
    /\ \A name \in {"aria", "semantic"} :
        Returned(name) =>
            /\ NoTwoEqual(result.texts)
            /\ \A a, b \in DOMAIN result.texts :
                   (a # b /\ Len(result.texts[a]) > 3)
                       => ~Includes(result.texts[b], result.texts[a])
    /\ Returned("raw-text") =>
            \A a \in 1..(Len(result.texts) - 1) :
                result.texts[a] # result.texts[a + 1]

(* the aria extractor dropped one of its spans and returned two texts *)
C11_Witness ==
    /\ Returned("aria")
    /\ Len(result.texts) >= 2
    /\ Len(result.texts) < Len(args.spans)

(* C12: deduplicateTexts is idempotent: given its own result, with the same
   maxLength, it returns that list, element for element in the same order *)
C12_DedupIdempotent ==
    (fn = "deduplicateTexts" /\ step = 2) => result = args.texts

(* the first call dropped a text and kept two, and the second call is done *)
C12_Witness ==
    /\ fn = "deduplicateTexts"
    /\ step = 2
    /\ Len(result) >= 2
    /\ Len(result) < Len(args.input)

-----------------------------------------------------------------------------
(* The confidence of an ExtractedText: the computeConfidence function of each
   extractor.  The arguments are the lengths the functions read: the number
   of texts, links and sub-items and the length of texts[0] (0 when there is
   no first text or it is empty). *)

MaxFields == 5           \* texts an ExtractedText holds at most

TitleLengths == {0, 1, 2, 3, 4, 149, 150, 151}
LinkCounts == {0, 1, 2}
SubItemCounts == {0, 2, 3}

(* aria-extractor.ts, lines 66-68 *)
AriaBase(texts) ==
    IF texts >= 3 THEN 40 ELSE IF texts >= 2 THEN 30 ELSE IF texts >= 1 THEN 15 ELSE 0

(* aria-extractor.ts, lines 73-76: title && title.length > 2 && title.length < 150 *)
TitleBonus_UpTo150(title) == IF title > 2 /\ title <= 150 THEN 20 ELSE 0

TitleBonus(title) == IF title > 2 /\ title < 150 THEN 20 ELSE 0

(* aria-extractor.ts, lines 59-79 *)
AriaComputeConfidence(texts, links, subItems, title) ==
    Min(AriaBase(texts)
          + (IF links > 0 THEN 20 ELSE 0)
          + (IF subItems > 0 THEN 20 ELSE 0)
          + TitleBonus(title),
        100)

(* semantic-extractor.ts, lines 64-69 *)
SemanticComputeConfidence(texts) ==
    IF texts >= 3 THEN 60 ELSE IF texts >= 2 THEN 45 ELSE IF texts >= 1 THEN 25 ELSE 0

(* raw-text-extractor.ts, lines 58-63 *)
RawComputeConfidence_SemanticScale(texts) ==
    IF texts >= 4 THEN 60 ELSE IF texts >= 2 THEN 45 ELSE IF texts >= 1 THEN 25 ELSE 0

RawComputeConfidence(texts) ==
    IF texts >= 4 THEN 40 ELSE IF texts >= 2 THEN 30 ELSE IF texts >= 1 THEN 15 ELSE 0

ConfidenceArgs ==
    { a \in [texts : 0..MaxFields, links : LinkCounts, subItems : SubItemCounts,
             title : TitleLengths] :
        a.texts = 0 <=> a.title = 0 }

NotComputed == -1

InitConfidence ==
    /\ PipelineIdle
    /\ RegistryConstructed
    /\ fn = "computeConfidence"
    /\ args \in ConfidenceArgs
    /\ result = [aria |-> NotComputed, semantic |-> NotComputed, raw |-> NotComputed]
    /\ step = 0

CallAriaComputeConfidence ==
    /\ fn = "computeConfidence"
    /\ result.aria = NotComputed
    /\ result' = [result EXCEPT
                    !.aria = AriaComputeConfidence(args.texts, args.links,
                                                   args.subItems, args.title)]
    /\ step' = step + 1
    /\ UNCHANGED << fn, args, registryVars, pipelineVars >>

(* the semantic extractor has no sub-items, and its links are not given to
   computeConfidence: semantic-extractor.ts, lines 23-27 *)
CallSemanticComputeConfidence ==
    /\ fn = "computeConfidence"
    /\ result.semantic = NotComputed
    /\ result' = [result EXCEPT !.semantic = SemanticComputeConfidence(args.texts)]
    /\ step' = step + 1
    /\ UNCHANGED << fn, args, registryVars, pipelineVars >>

CallRawComputeConfidence ==
    /\ fn = "computeConfidence"
    /\ result.raw = NotComputed
    /\ result' = [result EXCEPT !.raw = RawComputeConfidence(args.texts)]
    /\ step' = step + 1
    /\ UNCHANGED << fn, args, registryVars, pipelineVars >>

NextConfidence ==
    \/ CallAriaComputeConfidence
    \/ CallSemanticComputeConfidence
    \/ CallRawComputeConfidence

SpecConfidence == InitConfidence /\ [][NextConfidence]_vars

Computed(name) == fn = "computeConfidence" /\ result[name] # NotComputed

(* the claimed bonuses: a link, sub-items, a first text of 3 to 150 characters *)
ClaimedBonuses(subItems) ==
    (IF args.links >= 1 THEN 20 ELSE 0)
      + (IF subItems >= 1 THEN 20 ELSE 0)
      + (IF args.title >= 3 /\ args.title <= 150 THEN 20 ELSE 0)

ClaimedBase(atThree, atTwo, atOne) ==
    IF args.texts >= 3 THEN atThree ELSE IF args.texts = 2 THEN atTwo ELSE atOne

(* C13, as stated: for the aria and for the semantic extractor, confidence is
   base + 0.2 for a link + 0.2 for sub-items + 0.2 for a first text of 3 to
   150 characters, capped at 1.0, with base 0.4 / 0.3 / 0.15 (aria) and
   0.6 / 0.45 / 0.25 (semantic) at >= 3 / 2 / 1 fields; the semantic extractor
   detects no sub-items *)
C13_BaseAndBonusesBoth ==
    args.texts >= 1 =>
        /\ Computed("aria") =>
              result.aria = Min(ClaimedBase(40, 30, 15) + ClaimedBonuses(args.subItems), 100)
        /\ Computed("semantic") =>
              result.semantic = Min(ClaimedBase(60, 45, 25) + ClaimedBonuses(0), 100)

(* C13, amended: the aria confidence is base + 0.2 for a link + 0.2 for
   sub-items + 0.2 for a first text of 3 to 149 characters, capped at 1.0;
   the semantic confidence is its base alone, whatever the links and the
   first text *)
C13_AriaBonusesSemanticBase ==
    args.texts >= 1 =>
        /\ Computed("aria") =>
              result.aria =
                  Min(ClaimedBase(40, 30, 15)
                        + (IF args.links >= 1 THEN 20 ELSE 0)
                        + (IF args.subItems >= 1 THEN 20 ELSE 0)
                        + (IF args.title >= 3 /\ args.title <= 149 THEN 20 ELSE 0),
                      100)
        /\ Computed("semantic") => result.semantic = ClaimedBase(60, 45, 25)

(* three texts with a link, sub-items and a first text of 150 characters:
   the aria confidence is 0.8 and the semantic confidence 0.6 *)
C13_Witness ==
    /\ Computed("aria") /\ Computed("semantic")
    /\ args.texts = 3 /\ args.links = 1 /\ args.subItems = 2 /\ args.title = 150
    /\ result.aria = 80
    /\ result.semantic = 60

(* C14: for n >= 1 texts the raw-text confidence is at most the aria and at
   most the semantic confidence for n texts, whatever the links, sub-items
   and first text, and lies between 0.15 and 0.4 *)
C14_RawNeverOutranks ==
    (args.texts >= 1 /\ Computed("raw")) =>
        /\ Computed("aria") => result.raw <= result.aria
        /\ Computed("semantic") => result.raw <= result.semantic
        /\ result.raw >= 15
        /\ result.raw <= 40

(* four texts without link, sub-items or plausible first text: the raw-text
   and the aria confidence are both 0.4 *)
C14_Witness ==
    /\ Computed("raw") /\ Computed("aria") /\ Computed("semantic")
    /\ args.texts = 4 /\ args.links = 0 /\ args.subItems = 0 /\ args.title = 2
    /\ result.raw = 40
    /\ result.aria = 40

-----------------------------------------------------------------------------
(* One candidate of a list run with the experience parser: the extractor
   extractText took the text from detects the sub-items (part_018, lines
   63-97), ExperienceParser.parse makes the record, ExperienceParser.validate
   judges it and handleList pushes it (pipeline.ts, lines 130-147).
   A candidate is the texts of the node itself, the direct entries of its
   first nested list (each the textContent of its aria-hidden spans) and the
   entry, if any, whose text extraction throws. *)

MaxEntries == 3          \* direct entries of the nested list at most

EntryUniverse ==
    { << >>,
      << << " ", " " >> >>,
      << << "a", "b", "c", "d" >> >>,
      << << "x", "y" >>, << "a", "b" >> >> }

CandidateTexts ==
    { << >>,
      << << "a", "b", "c" >> >>,
      << << "a", "b", "c" >>, << "x", "y" >> >> }

Candidates ==
    UNION { [ by : ExtractorNames,
              texts : CandidateTexts,
              entries : [1..n -> EntryUniverse],
              throwAt : 0..n ] : n \in 0..MaxEntries }

(* part_018, line 76: nestedLis.length <= 1 *)
TooFewEntries_UpToThree(n) == n <= 3

TooFewEntries(n) == n <= 1

(* part_018, line 89 *)
SubItemConfidence(texts) == IF Len(texts) >= 2 THEN 80 ELSE 50

(* part_018, lines 80-94: the loop over the entries from entry k on; an
   exception ends it and what was pushed so far is returned *)
RECURSIVE DetectSubItemsFrom(_, _, _, _)
DetectSubItemsFrom(entries, k, throwAt, subItems) ==
    IF k > Len(entries) \/ k = throwAt THEN subItems
    ELSE
        LET texts == ExtractAriaTexts(entries[k])
        IN DetectSubItemsFrom(entries, k + 1, throwAt,
              IF Len(texts) = 0 THEN subItems
              ELSE Append(subItems,
                          [texts |-> texts, confidence |-> SubItemConfidence(texts)]))

(* part_018, lines 63-97, with extractAriaTexts as textExtractFn; a node
   without nested list has no entries *)
DetectSubItems(entries, throwAt) ==
    IF TooFewEntries(Len(entries)) THEN << >>
    ELSE DetectSubItemsFrom(entries, 1, throwAt, << >>)

(* what extractText returns for the candidate: aria-extractor.ts, lines
   22-37; the semantic and the raw-text extractor return no subItems
   (semantic-extractor.ts 23-27, raw-text-extractor.ts 46-50); an extractor
   without texts returns null *)
NoExtracted == [kind |-> "null", texts |-> << >>, subItems |-> << >>]

CandidateExtracted(c) ==
    IF Len(c.texts) = 0 THEN NoExtracted
    ELSE [ kind |-> "value",
           texts |-> c.texts,
           subItems |-> IF c.by = "aria" THEN DetectSubItems(c.entries, c.throwAt)
                        ELSE << >> ]

(* experience-parser.ts, lines 16 and 107: texts.map(t => t.trim()).filter(Boolean) *)
TrimmedNonEmpty(texts) == SelectSeq(TrimAll(texts), NonEmpty)

(* experience-parser.ts, lines 106-132: of a Position the title is kept *)
NoPosition == [kind |-> "null", title |-> << >>]

ParsePosition(texts) ==
    LET lines == TrimmedNonEmpty(texts)
    IN IF Len(lines) = 0 THEN NoPosition
       ELSE [kind |-> "value", title |-> lines[1]]

IsPosition(position) == position.kind = "value"

(* experience-parser.ts, lines 23-25 *)
ParsePositions(subItems) ==
    SelectSeq([k \in DOMAIN subItems |-> ParsePosition(subItems[k].texts)], IsPosition)

(* experience-parser.ts, lines 68-104: the position of a record without
   sub-items has the first text as title *)
ParseSingleExperience(texts) ==
    [ company |-> IF Len(texts) >= 2 THEN texts[2] ELSE << >>,
      position |-> [kind |-> "value", title |-> texts[1]] ]

(* experience-parser.ts, lines 15-50 *)
NoExperience == [kind |-> "null", company |-> << >>, positions |-> << >>]

ExperienceParse(input) ==
    LET texts == TrimmedNonEmpty(input.texts)
    IN IF Len(texts) = 0 THEN NoExperience
       ELSE IF Len(input.subItems) > 0
            THEN LET positions == ParsePositions(input.subItems)
                 IN IF Len(positions) = 0 THEN NoExperience
                    ELSE [kind |-> "value", company |-> texts[1], positions |-> positions]
            ELSE LET parsed == ParseSingleExperience(texts)
                 IN [ kind |-> "value", company |-> parsed.company,
                      positions |-> << parsed.position >> ]

(* experience-parser.ts, lines 52-65 *)
ExperienceValidate(item) ==
    /\ Len(item.positions) > 0
    /\ item.company # << >> \/ item.positions[1].title # << >>

(* experience-parser.ts, lines 57-62: the positions validate reads *)
PositionsValidateReads(item) == IF Len(item.positions) > 0 THEN {1} ELSE {}

InitCandidate ==
    /\ PipelineIdle
    /\ RegistryConstructed
    /\ fn = "handleList"
    /\ args \in Candidates
    /\ result = [ extracted |-> NoExtracted, parsed |-> NoExperience, items |-> << >>,
                  validateCalls |-> 0, validateRead |-> {} ]
    /\ step = 0

(* pipeline.ts, lines 124-128 *)
CandidateExtractText ==
    /\ fn = "handleList"
    /\ step = 0
    /\ LET e == CandidateExtracted(args)
       IN /\ result' = [result EXCEPT !.extracted = e]
          /\ step' = IF e.kind = "null" THEN 3 ELSE 1
    /\ UNCHANGED << fn, args, registryVars, pipelineVars >>

(* pipeline.ts, lines 130-139 *)
CandidateParse ==
    /\ fn = "handleList"
    /\ step = 1
    /\ result' = [result EXCEPT !.parsed = ExperienceParse(result.extracted)]
    /\ step' = 2
    /\ UNCHANGED << fn, args, registryVars, pipelineVars >>

(* pipeline.ts, lines 141-147 *)
CandidateValidate ==
    /\ fn = "handleList"
    /\ step = 2
    /\ result' =
          IF result.parsed.kind = "null" THEN result
          ELSE [result EXCEPT
                  !.validateCalls = @ + 1,
                  !.validateRead = @ \cup PositionsValidateReads(result.parsed),
                  !.items = IF ExperienceValidate(result.parsed)
                            THEN Append(@, result.parsed) ELSE @]
    /\ step' = 3
    /\ UNCHANGED << fn, args, registryVars, pipelineVars >>

NextCandidate ==
    \/ CandidateExtractText
    \/ CandidateParse
    \/ CandidateValidate

SpecCandidate == InitCandidate /\ [][NextCandidate]_vars

CandidateDone == fn = "handleList" /\ step = 3

(* the positions of the item pushed are those of the entries, in entry order *)
PositionsInEntryOrder ==
    /\ Len(result.items) = 1
    /\ Len(result.items[1].positions) = Len(args.entries)
    /\ \A k \in DOMAIN args.entries :
          result.items[1].positions[k].title = ExtractAriaTexts(args.entries[k])[1]

(* C15, as stated: a candidate whose nested list has exactly 3 direct
   entries yields exactly one parent Experience with exactly 3 positions in
   entry order, and each of the 3 positions is validated on its own *)
C15_ThreePositionsEachValidated ==
    (CandidateDone /\ Len(args.entries) = 3) =>
        /\ PositionsInEntryOrder
        /\ result.validateRead = {1, 2, 3}

(* the candidates the amended claim covers: the text is the aria extractor's,
   the node has a text of its own, and each entry yields a text *)
AriaWithFullEntries ==
    /\ args.by = "aria"
    /\ Len(args.texts) > 0
    /\ args.throwAt = 0
    /\ \A k \in DOMAIN args.entries : Len(ExtractAriaTexts(args.entries[k])) > 0

(* C15, amended: for such a candidate with exactly 3 direct entries the run
   yields exactly one parent Experience with exactly 3 positions in entry
   order, each parsed from its own entry; validate is called once, on the
   parent, and reads the first position only *)
C15_ThreePositionsParentValidated ==
    (CandidateDone /\ Len(args.entries) = 3 /\ AriaWithFullEntries) =>
        /\ PositionsInEntryOrder
        /\ result.validateCalls = 1
        /\ result.validateRead = {1}

(* three entries with different first texts gave an Experience with three
   positions *)
C15_Witness ==
    /\ CandidateDone
    /\ Len(args.entries) = 3
    /\ AriaWithFullEntries
    /\ args.entries[1] # args.entries[2]
    /\ Len(result.items) = 1
    /\ Len(result.items[1].positions) = 3

-----------------------------------------------------------------------------
(* The selector registry (registry.ts, lines 42-83) and the item search of
   AriaStrategy that reads it (part_014, lines 37-84).  The methods of the
   registry are synchronous; a findItems call awaits the page between its
   queries, so registry calls may come in between. *)

VersionIds == {"v1", "v2"}
UnknownIds == {"v3"}                  \* an id nobody registers
SectionNames == {"experience", "accomplishment"}

(* the sections of the versions registered or loaded: those of
   DEFAULT_VERSION, one section with a short chain, no section at all *)
SectionVariants ==
    { DEFAULT_VERSION.sections,
      [name \in {"experience"} |-> << ".item", "main ul > li" >>],
      [name \in {} |-> << >>] }

SelectorVersions == [version : VersionIds, sections : SectionVariants]

(* what JSON.parse(content) as SelectorVersion is when the file holds a
   version *)
ParsedFiles == SelectorVersions

(* Map.prototype.set *)
MapSet(map, key, value) ==
    [k \in DOMAIN map \cup {key} |-> IF k = key THEN value ELSE map[k]]

(* registry.ts, line 57: this.versions.has(version) *)
Has_Always(map, key) == TRUE

Has(map, key) == key \in DOMAIN map

(* registry.ts, lines 48-50 *)
GetActiveVersion ==
    IF activeVersion \in DOMAIN versions THEN versions[activeVersion]
    ELSE DEFAULT_VERSION

(* registry.ts, lines 52-54: null is the section without selectors *)
NoSection == [found |-> FALSE, itemSelectors |-> << >>]

GetSection(sectionName) ==
    IF sectionName \in DOMAIN GetActiveVersion.sections
    THEN [found |-> TRUE, itemSelectors |-> GetActiveVersion.sections[sectionName]]
    ELSE NoSection

(* registry.ts, lines 56-60 *)
SetActiveVersion ==
    \E id \in VersionIds \cup UnknownIds :
        /\ IF Has(versions, id)
           THEN /\ activeVersion' = id
                /\ returned' = [op |-> "setActiveVersion", arg |-> id, value |-> TRUE]
           ELSE /\ returned' = [op |-> "setActiveVersion", arg |-> id, value |-> FALSE]
                /\ UNCHANGED activeVersion
        /\ UNCHANGED << versions, fn, args, result, step, pipelineVars >>

(* registry.ts, lines 62-64 *)
Register ==
    \E version \in SelectorVersions :
        /\ versions' = MapSet(versions, version.version, version)
        /\ returned' = [op |-> "register", arg |-> version, value |-> TRUE]
        /\ UNCHANGED << activeVersion, fn, args, result, step, pipelineVars >>

(* registry.ts, lines 66-72: readFile or JSON.parse throws, or parsed is null
   and register throws at version.version, before anything is written *)
LoadFromFileThrows ==
    /\ returned' = [op |-> "loadFromFile", arg |-> "none", value |-> FALSE]
    /\ UNCHANGED << versions, activeVersion, fn, args, result, step, pipelineVars >>

LoadFromFile ==
    \E parsed \in ParsedFiles :
        /\ versions' = MapSet(versions, parsed.version, parsed)
        /\ activeVersion' = parsed.version
        /\ returned' = [op |-> "loadFromFile", arg |-> parsed, value |-> TRUE]
        /\ UNCHANGED << fn, args, result, step, pipelineVars >>

(* part_014, lines 42-45: the chain used when the section has no entry *)
DefaultChain == << "main ul > li", "main ol > li" >>

(* part_014, line 72 *)
GenericListFallback == "ul > li, ol > li"

(* part_014, lines 41-45 *)
SelectorChain_OfDefaultVersion(sectionName) ==
    IF sectionName \in DOMAIN DEFAULT_VERSION.sections
    THEN DEFAULT_VERSION.sections[sectionName]
    ELSE DefaultChain

SelectorChain(sectionName) ==
    IF GetSection(sectionName).found THEN GetSection(sectionName).itemSelectors
    ELSE DefaultChain

(* what locator.all() can do: no node, some nodes, an exception *)
QueryOutcomes == {"none", "some", "throw"}

FindItemsPending == fn = "findItems" /\ result.kind = "pending"

(* part_014, lines 37-51: the call reads the section of the active version *)
FindItemsCall ==
    /\ ~FindItemsPending
    /\ \E sectionName \in SectionNames :
        /\ fn' = "findItems"
        /\ args' = [ sectionName |-> sectionName,
                     selectorChain |-> SelectorChain(sectionName) ]
        /\ result' = [kind |-> "pending", queried |-> << >>, from |-> "none"]
        /\ step' = 1
    /\ UNCHANGED << registryVars, pipelineVars >>

(* part_014, lines 53-68: the next selector of the chain is queried *)
FindItemsQuery ==
    /\ FindItemsPending
    /\ step <= Len(args.selectorChain)
    /\ \E outcome \in QueryOutcomes :
        LET selector == args.selectorChain[step]
            queried == Append(result.queried, [selector |-> selector, outcome |-> outcome])
        IN IF outcome = "some"
           THEN /\ result' = [kind |-> "items", queried |-> queried, from |-> selector]
                /\ UNCHANGED step
           ELSE /\ result' = [result EXCEPT !.queried = queried]
                /\ step' = step + 1
    /\ UNCHANGED << fn, args, registryVars, pipelineVars >>

(* part_014, lines 70-83: the generic list fallback, then null *)
FindItemsFallback ==
    /\ FindItemsPending
    /\ step > Len(args.selectorChain)
    /\ \E outcome \in QueryOutcomes :
        LET queried == Append(result.queried,
                              [selector |-> GenericListFallback, outcome |-> outcome])
        IN result' = IF outcome = "some"
                     THEN [kind |-> "items", queried |-> queried,
                           from |-> GenericListFallback]
                     ELSE [kind |-> "null", queried |-> queried, from |-> "none"]
    /\ UNCHANGED << fn, args, step, registryVars, pipelineVars >>

InitRegistry ==
    /\ PipelineIdle
    /\ AsideIdle

NextRegistry ==
    \/ SetActiveVersion
    \/ Register
    \/ LoadFromFileThrows
    \/ LoadFromFile
    \/ FindItemsCall
    \/ FindItemsQuery
    \/ FindItemsFallback

SpecRegistry == InitRegistry /\ [][NextRegistry]_vars

RegistryCallStep == registryVars' # registryVars

(* C16: setActiveVersion(id) returns true and makes id active iff id is
   registered, otherwise it returns false and changes neither the active
   version nor the table; register(v) inserts or replaces the entry of
   v.version and leaves the active id alone; loadFromFile registers and
   activates what it read; the active id always names a registered version *)
C16_RegistryContract ==
    /\ [](activeVersion \in DOMAIN versions)
    /\ [][ RegistryCallStep =>
            /\ returned'.op = "setActiveVersion" =>
                  /\ returned'.value = (returned'.arg \in DOMAIN versions)
                  /\ versions' = versions
                  /\ activeVersion' = IF returned'.arg \in DOMAIN versions
                                      THEN returned'.arg ELSE activeVersion
            /\ returned'.op = "register" =>
                  /\ activeVersion' = activeVersion
                  /\ DOMAIN versions' = DOMAIN versions \cup {returned'.arg.version}
                  /\ \A id \in DOMAIN versions' :
                        versions'[id] = IF id = returned'.arg.version
                                        THEN returned'.arg ELSE versions[id]
            /\ (returned'.op = "loadFromFile" /\ returned'.value) =>
                  /\ activeVersion' = returned'.arg.version
                  /\ versions'[activeVersion'] = returned'.arg
            /\ (returned'.op = "loadFromFile" /\ ~returned'.value) =>
                  /\ versions' = versions
                  /\ activeVersion' = activeVersion ]_vars

(* v2 is active, and a setActiveVersion of an unregistered id has returned
   false *)
C16_Witness ==
    /\ activeVersion = "v2"
    /\ returned.op = "setActiveVersion"
    /\ ~returned.value
    /\ returned.arg \notin DOMAIN versions

(* the selectors findItems may query, in the order of the search *)
SearchOrder == args.selectorChain \o << GenericListFallback >>

NothingFound(queries) ==
    \A k \in DOMAIN queries : queries[k].outcome \in {"none", "throw"}

FindItemsCallStep ==
    /\ fn' = "findItems"
    /\ result'.kind = "pending"
    /\ result'.queried = << >>
    /\ ~FindItemsPending

(* C18: findItems takes the section's itemSelectors from the version active
   when it is called, queries them in list order and returns the nodes of
   the first that yields a node, querying none after it; a query that throws
   is skipped; after the chain the generic list fallback is queried, and null
   is returned only if that gives nothing either *)
C18_FirstYieldingSelector ==
    /\ [](fn = "findItems" =>
            /\ Len(result.queried) <= Len(SearchOrder)
            /\ \A k \in DOMAIN result.queried :
                  result.queried[k].selector = SearchOrder[k]
            /\ NothingFound(SubSeq(result.queried, 1, Len(result.queried) - 1))
            /\ result.kind = "items" =>
                  /\ result.queried # << >>
                  /\ result.queried[Len(result.queried)].outcome = "some"
                  /\ result.from = result.queried[Len(result.queried)].selector
            /\ result.kind = "null" =>
                  /\ Len(result.queried) = Len(SearchOrder)
                  /\ NothingFound(result.queried)
            /\ result.kind = "pending" => NothingFound(result.queried))
    /\ [][ /\ FindItemsCallStep =>
                args'.selectorChain =
                    IF args'.sectionName \in DOMAIN versions[activeVersion].sections
                    THEN versions[activeVersion].sections[args'.sectionName]
                    ELSE DefaultChain
           /\ (FindItemsPending /\ fn' = "findItems") => args' = args ]_vars

(* a registered version's chain was read; its first selector threw and the
   second gave the items *)
C18_Witness ==
    /\ fn = "findItems"
    /\ result.kind = "items"
    /\ args.selectorChain = << ".item", "main ul > li" >>
    /\ Len(result.queried) = 2
    /\ result.queried[1].outcome = "throw"
    /\ result.from = "main ul > li"

-----------------------------------------------------------------------------
(* Self-healing (part_009, lines 21-43): attemptSelfHeal is called by nobody
   in the repository; a caller may call it after a section run that gave no
   item.  The run is the one of Spec. *)

(* what provider.generateSelectors(context) can do *)
ProviderOutcomes ==
    { [kind |-> "null", version |-> DEFAULT_VERSION],
      [kind |-> "throw", version |-> DEFAULT_VERSION] }
      \cup { [kind |-> "version", version |-> v] : v \in SelectorVersions }

NotInvoked == [kind |-> "none", version |-> DEFAULT_VERSION]
NullVersion == [kind |-> "null", version |-> DEFAULT_VERSION]

(* part_009, lines 38-42: what attemptSelfHeal returns once the provider was
   invoked *)
SelfHealReturn_Null(generated) == NullVersion

SelfHealReturn(generated) ==
    IF generated.kind = "version" THEN generated ELSE NullVersion

(* part_009, lines 21-43; captureSectionHtml (57-66) catches the failure of
   the markup query and gives the empty string *)
AttemptSelfHeal ==
    /\ pc = "Done"
    /\ Len(items) = 0
    /\ fn = "none"
    /\ \E provider \in BOOLEAN, generated \in ProviderOutcomes :
        /\ fn' = "attemptSelfHeal"
        /\ args' = [provider |-> provider, section |-> "experience"]
        /\ result' = IF provider
                     THEN [generated |-> generated, value |-> SelfHealReturn(generated)]
                     ELSE [generated |-> NotInvoked, value |-> NullVersion]
        /\ step' = 1
    /\ UNCHANGED << registryVars, pipelineVars >>

NextHeal ==
    \/ Extract
    \/ PageExtractorReturns
    \/ TryExtractor
    \/ ExtractorExtract
    \/ ExtractTextReturn
    \/ HandleListItem
    \/ HandleSingleItem
    \/ HandleRawParseRaw
    \/ HandleRawBlock
    \/ HandleRawReturn
    \/ Deduplicate
    \/ CaptureHtml
    \/ Return
    \/ AttemptSelfHeal

SpecHeal == Init /\ [][NextHeal]_vars

(* a step of the section run *)
ExtractStep == pipelineVars' # pipelineVars

(* the provider has been invoked *)
ProviderInvoked == fn = "attemptSelfHeal" /\ result.generated.kind # "none"

(* C17: no step of extract invokes a provider or changes the registry;
   attemptSelfHeal changes neither the registered versions nor the active
   version and returns the version the provider generated *)
C17_SelfHealOnlyOnRequest ==
    [][ /\ ExtractStep =>
              /\ ~ProviderInvoked
              /\ ~ProviderInvoked'
              /\ versions' = versions
              /\ activeVersion' = activeVersion
        /\ (fn = "none" /\ fn' = "attemptSelfHeal") =>
              /\ versions' = versions
              /\ activeVersion' = activeVersion
              /\ result'.generated.kind = "version" => result'.value = result'.generated
      ]_vars

(* after a run without items the provider generated version v2 and
   attemptSelfHeal returned it; v1 alone is registered *)
C17_Witness ==
    /\ pc = "Done"
    /\ ProviderInvoked
    /\ result.generated.kind = "version"
    /\ result.value.version.version = "v2"
    /\ DOMAIN versions = {"v1"}
    /\ activeVersion = "v1"

-----------------------------------------------------------------------------
(* The validate methods of the parsers.  A record is the lengths of the
   fields validate reads (0: empty, null or undefined) and the flags it
   tests. *)

AccomplishmentTitleCeiling == 200     \* item.title.length <= 200
PatentTitleCeiling == 300             \* item.title.length <= 300

FieldLengths ==
    { 0, 1, AccomplishmentTitleCeiling, AccomplishmentTitleCeiling + 1,
      PatentTitleCeiling, PatentTitleCeiling + 1, 10000 }

ParserNames ==
    {"experience", "education", "accomplishment", "patent", "interest", "top-card"}

(* an Experience: company, the number of positions, and of positions[0] the
   title and whether fromDate, location or description is set *)
ExperienceRecords ==
    [ company : {0, 4}, positions : 0..2, title : FieldLengths, otherSignal : BOOLEAN ]

(* a TopCardResult: the name and whether it is the string 'Unknown' *)
TopCardRecords ==
    { r \in [name : FieldLengths \cup {7}, isUnknown : BOOLEAN] :
        r.isUnknown => r.name = 7 }

Records(parser) ==
    CASE parser = "experience" -> ExperienceRecords
      [] parser = "education" -> [institutionName : FieldLengths]
      [] parser = "accomplishment" -> [title : FieldLengths]
      [] parser = "patent" -> [title : FieldLengths]
      [] parser = "interest" -> [name : FieldLengths, linkedinUrl : BOOLEAN]
      [] parser = "top-card" -> TopCardRecords

(* experience-parser.ts, lines 52-65 *)
ExperienceParserValidate(item) ==
    IF item.positions = 0 THEN FALSE
    ELSE item.company > 0 \/ item.title > 0 \/ item.otherSignal

(* part_009, lines 116-118 *)
EducationParserValidate(item) == item.institutionName > 0

(* part_012, lines 75-77 *)
AccomplishmentParserValidate(item) ==
    item.title > 0 /\ item.title <= AccomplishmentTitleCeiling

(* part_010, lines 57-59 *)
PatentParserValidate(item) == item.title > 0 /\ item.title <= PatentTitleCeiling

(* interest-parser.ts, lines 28-30 *)
InterestParserValidate(item) == item.name > 0 /\ item.linkedinUrl

(* contact-parser.ts, lines 177-179 *)
TopCardParserValidate(item) == item.name > 0 /\ ~item.isUnknown

InitValidate ==
    /\ PipelineIdle
    /\ RegistryConstructed
    /\ fn = "validate"
    /\ \E parser \in ParserNames :
          \E item \in Records(parser) : args = [parser |-> parser, item |-> item]
    /\ result = FALSE
    /\ step = 0

(* pipeline.ts, line 141, with ExperienceParser *)
CallExperienceValidate ==
    /\ fn = "validate"
    /\ step = 0
    /\ args.parser = "experience"
    /\ result' = ExperienceParserValidate(args.item)
    /\ step' = 1
    /\ UNCHANGED << fn, args, registryVars, pipelineVars >>

(* with EducationParser *)
CallEducationValidate ==
    /\ fn = "validate"
    /\ step = 0
    /\ args.parser = "education"
    /\ result' = EducationParserValidate(args.item)
    /\ step' = 1
    /\ UNCHANGED << fn, args, registryVars, pipelineVars >>

(* with AccomplishmentParser *)
CallAccomplishmentValidate ==
    /\ fn = "validate"
    /\ step = 0
    /\ args.parser = "accomplishment"
    /\ result' = AccomplishmentParserValidate(args.item)
    /\ step' = 1
    /\ UNCHANGED << fn, args, registryVars, pipelineVars >>

(* with PatentParser *)
CallPatentValidate ==
    /\ fn = "validate"
    /\ step = 0
    /\ args.parser = "patent"
    /\ result' = PatentParserValidate(args.item)
    /\ step' = 1
    /\ UNCHANGED << fn, args, registryVars, pipelineVars >>

(* with InterestParser *)
CallInterestValidate ==
    /\ fn = "validate"
    /\ step = 0
    /\ args.parser = "interest"
    /\ result' = InterestParserValidate(args.item)
    /\ step' = 1
    /\ UNCHANGED << fn, args, registryVars, pipelineVars >>

(* with TopCardParser *)
CallTopCardValidate ==
    /\ fn = "validate"
    /\ step = 0
    /\ args.parser = "top-card"
    /\ result' = TopCardParserValidate(args.item)
    /\ step' = 1
    /\ UNCHANGED << fn, args, registryVars, pipelineVars >>

NextValidate ==
    \/ CallExperienceValidate
    \/ CallEducationValidate
    \/ CallAccomplishmentValidate
    \/ CallPatentValidate
    \/ CallInterestValidate
    \/ CallTopCardValidate

SpecValidate == InitValidate /\ [][NextValidate]_vars

(* the length of the record's primary field: title, name or institution *)
PrimaryField ==
    CASE args.parser \in {"experience", "accomplishment", "patent"} -> args.item.title
      [] args.parser = "education" -> args.item.institutionName
      [] args.parser \in {"interest", "top-card"} -> args.item.name

(* C19: for every parser, a record validate accepts has a non-empty primary
   field whose length is within a fixed ceiling; the ceiling taken is the
   largest one a validate method has *)
C19_ValidPrimaryFieldBounded ==
    (fn = "validate" /\ step = 1 /\ result) =>
        /\ PrimaryField > 0
        /\ PrimaryField <= PatentTitleCeiling

-----------------------------------------------------------------------------
(* ContactParser.parseRaw (contact-parser.ts, lines 18-85) and dedupeContacts
   (116-130).  A raw section is its heading, its first label ("" when it has
   none), its text after the heading, and its anchors; "mailto:" is one
   character of an href. *)

MaxSections == 3         \* raw sections a contact overlay holds at most

NoAnchor == [href |-> << >>, text |-> << >>]
MailtoA == [href |-> << "mailto:", "a" >>, text |-> << >>]
MailtoB == [href |-> << "mailto:", "b" >>, text |-> << >>]
TextA == [href |-> << >>, text |-> << " ", "a" >>]
LinkB == [href |-> << "b" >>, text |-> << "a" >>]
MailtoAText == [href |-> << "mailto:", "a" >>, text |-> << "a" >>]
MailtoOnly == [href |-> << "mailto:" >>, text |-> << "a" >>]
HrefOnlyB == [href |-> << "b" >>, text |-> << >>]

RawSections ==
    { [heading |-> "Other", label |-> "", text |-> << "a" >>, anchors |-> << >>],
      [heading |-> "Phone", label |-> "Mobile", text |-> << "a", " " >>, anchors |-> << >>],
      [heading |-> "Phone", label |-> "", text |-> << " " >>, anchors |-> << >>],
      [heading |-> "Email", label |-> "Work", text |-> << >>, anchors |-> << MailtoA >>],
      [heading |-> "Email", label |-> "Home", text |-> << >>, anchors |-> << TextA >>],
      [heading |-> "Email", label |-> "", text |-> << >>, anchors |-> << MailtoB, MailtoA >>],
      [heading |-> "Email", label |-> "", text |-> << >>, anchors |-> << MailtoAText >>],
      [heading |-> "Email", label |-> "", text |-> << >>,
       anchors |-> << HrefOnlyB, MailtoA, MailtoOnly, NoAnchor, TextA >>],
      [heading |-> "Website", label |-> "Work", text |-> << >>, anchors |-> << LinkB, NoAnchor >>],
      [heading |-> "Website", label |-> "Home", text |-> << >>, anchors |-> << TextA, LinkB >>],
      [heading |-> "Your Profile", label |-> "", text |-> << >>, anchors |-> << TextA, LinkB >>] }

SectionLists == UNION { [1..n -> RawSections] : n \in 0..MaxSections }

(* utils.ts, lines 156-166 *)
MapContactHeadingToType(heading) ==
    CASE heading = "Your Profile" -> "linkedin"
      [] heading = "Website" -> "website"
      [] heading = "Email" -> "email"
      [] heading = "Phone" -> "phone"
      [] heading = "Twitter" -> "twitter"
      [] heading = "Birthday" -> "birthday"
      [] heading = "Address" -> "address"
      [] OTHER -> "null"

(* contact-parser.ts, lines 132-139: null is the empty string *)
NormalizeValue(value) == Trim(value)

(* contact-parser.ts, lines 103-114, on the text after the heading *)
ExtractPlainValue(text) == NormalizeValue(text)

(* contact-parser.ts, lines 47-50, 62-66, 73: the value an anchor gives for
   a contact type, empty when it gives none *)
AnchorValue_HrefFirst(contactType, anchor) ==
    LET href == NormalizeValue(anchor.href)
        text == NormalizeValue(anchor.text)
    IN CASE contactType = "linkedin" -> href
         [] OTHER -> IF href # << >> THEN href ELSE text

AnchorValue(contactType, anchor) ==
    LET href == NormalizeValue(anchor.href)
        text == NormalizeValue(anchor.text)
    IN CASE contactType = "email" ->
              IF href # << >> /\ Head(href) = "mailto:" THEN Tail(href) ELSE text
         [] contactType = "linkedin" -> href
         [] OTHER -> IF href # << >> THEN href ELSE text

(* contact-parser.ts, lines 41-81: the contacts of the anchors from anchor k on *)
RECURSIVE AnchorContacts(_, _, _, _)
AnchorContacts(contactType, label, anchors, k) ==
    IF k > Len(anchors) THEN << >>
    ELSE LET value == AnchorValue(contactType, anchors[k])
         IN (IF value = << >> THEN << >>
             ELSE << [type |-> contactType, value |-> value, label |-> label] >>)
              \o AnchorContacts(contactType, label, anchors, k + 1)

(* contact-parser.ts, lines 22-81: the contacts one section produces *)
SectionContacts(section) ==
    LET contactType == MapContactHeadingToType(section.heading)
    IN IF contactType = "null" THEN << >>
       ELSE IF contactType \in {"birthday", "phone", "address"}
            THEN LET value == ExtractPlainValue(section.text)
                 IN IF value = << >> THEN << >>
                    ELSE << [type |-> contactType, value |-> value, label |-> ""] >>
            ELSE AnchorContacts(contactType, section.label, section.anchors, 1)

(* contact-parser.ts, lines 19-82: the contacts array before deduplication *)
RECURSIVE ProducedContacts(_)
ProducedContacts(sections) ==
    IF sections = << >> THEN << >>
    ELSE SectionContacts(Head(sections)) \o ProducedContacts(Tail(sections))

(* contact-parser.ts, line 121: `${contact.type}|${contact.value}` *)
ContactKey_WithLabel(contact) ==
    << contact.type, "|" >> \o contact.value \o << "|", contact.label >>

ContactKey(contact) == << contact.type, "|" >> \o contact.value

(* contact-parser.ts, lines 116-130 *)
RECURSIVE DedupeContactsFrom(_, _)
DedupeContactsFrom(contacts, seen) ==
    IF contacts = << >> THEN << >>
    ELSE LET key == ContactKey(Head(contacts))
         IN IF key \in seen THEN DedupeContactsFrom(Tail(contacts), seen)
            ELSE << Head(contacts) >> \o DedupeContactsFrom(Tail(contacts), seen \cup {key})

DedupeContacts(contacts) == DedupeContactsFrom(contacts, {})

(* contact-parser.ts, lines 18-85 *)
ContactParseRaw(sections) == DedupeContacts(ProducedContacts(sections))

InitContacts ==
    /\ PipelineIdle
    /\ RegistryConstructed
    /\ fn = "parseRaw"
    /\ args \in [sections : SectionLists]
    /\ result = << >>
    /\ step = 0

CallContactParseRaw ==
    /\ fn = "parseRaw"
    /\ step = 0
    /\ result' = ContactParseRaw(args.sections)
    /\ step' = 1
    /\ UNCHANGED << fn, args, registryVars, pipelineVars >>

NextContacts == CallContactParseRaw

SpecContacts == InitContacts /\ [][NextContacts]_vars

SamePair(a, b) == a.type = b.type /\ a.value = b.value

(* the places, in increasing order, where a (type, value) pair is produced
   for the first time *)
FirstProduced(produced) ==
    { k \in DOMAIN produced : \A h \in 1..(k - 1) : ~SamePair(produced[h], produced[k]) }

(* C20: parseRaw returns at most one record per (type, value) pair, namely
   the first one produced for the pair, with its own label, and the records
   are in production order *)
C20_FirstPerTypeValue ==
    (fn = "parseRaw" /\ step = 1) =>
        LET produced == ProducedContacts(args.sections)
            first == FirstProduced(produced)
        IN /\ \A a, b \in DOMAIN result : a # b => ~SamePair(result[a], result[b])
           /\ Len(result) = Cardinality(first)
           /\ \A a \in DOMAIN result :
                 \E k \in first :
                    /\ result[a] = produced[k]
                    /\ Cardinality({ h \in first : h < k }) = a - 1

(* the same email was produced under the labels Work and Home, and the one
   returned has the label Work *)
C20_Witness ==
    /\ fn = "parseRaw"
    /\ step = 1
    /\ Len(args.sections) >= 2
    /\ args.sections[1].label = "Work"
    /\ args.sections[2].label = "Home"
    /\ SamePair(ProducedContacts(args.sections)[1], ProducedContacts(args.sections)[2])
    /\ Len(result) = 1
    /\ result[1].label = "Work"

-----------------------------------------------------------------------------
(* parseDateRange of scrapers/person/utils.ts.  A string is a sequence of
   one-character strings; " " is the whitespace character and "*" stands for
   the middle dot U+00B7 that separates the duration. *)

MaxPad == 1

Middot == "*"
DATE_RANGE_SEPARATOR == << " ", "-", " " >>

(* constants.ts, line 38 *)
CURRENT_KEYWORDS ==
    << << "P", "r", "e", "s", "e", "n", "t" >>,
       << "C", "u", "r", "r", "e", "n", "t" >>,
       << "N", "o", "w" >>,
       << "O", "n", "g", "o", "i", "n", "g" >> >>

UpperCaseLetters ==
    << "A", "B", "C", "D", "E", "F", "G", "H", "I", "J", "K", "L", "M",
       "N", "O", "P", "Q", "R", "S", "T", "U", "V", "W", "X", "Y", "Z" >>
LowerCaseLetters ==
    << "a", "b", "c", "d", "e", "f", "g", "h", "i", "j", "k", "l", "m",
       "n", "o", "p", "q", "r", "s", "t", "u", "v", "w", "x", "y", "z" >>

CharToLowerCase(c) ==
    IF \E k \in DOMAIN UpperCaseLetters : UpperCaseLetters[k] = c
    THEN LowerCaseLetters[CHOOSE k \in DOMAIN UpperCaseLetters : UpperCaseLetters[k] = c]
    ELSE c

(* String.prototype.toLowerCase *)
ToLowerCase_Identity(s) == s
ToLowerCase(s) == [k \in DOMAIN s |-> CharToLowerCase(s[k])]

(* String.prototype.indexOf, counted from 1; 0 when sub does not occur *)
IndexOf(s, sub) ==
    IF Includes(s, sub)
    THEN CHOOSE k \in 1..(Len(s) - Len(sub) + 1) :
            /\ SubSeq(s, k, k + Len(sub) - 1) = sub
            /\ \A h \in 1..(k - 1) : SubSeq(s, h, h + Len(sub) - 1) # sub
    ELSE 0

(* String.prototype.split with a non-empty string separator *)
RECURSIVE Split(_, _)
Split(s, sep) ==
    LET at == IndexOf(s, sep)
    IN IF at = 0 THEN << s >>
       ELSE << SubSeq(s, 1, at - 1) >> \o Split(SubSeq(s, at + Len(sep), Len(s)), sep)

NullDate == [kind |-> "null", value |-> << >>]
DateString(s) == [kind |-> "string", value |-> s]
AbsentDuration == [kind |-> "absent", value |-> << >>]

(* singleDate || null *)
OrNull(s) == IF s = << >> THEN NullDate ELSE DateString(s)

(* utils.ts, lines 83-93 *)
IsCurrentKeyword(toDate) ==
    \E k \in DOMAIN CURRENT_KEYWORDS :
        \/ toDate = CURRENT_KEYWORDS[k]
        \/ ToLowerCase(toDate) = ToLowerCase(CURRENT_KEYWORDS[k])

NormalizeToDate(toDate) ==
    IF toDate # << >> /\ IsCurrentKeyword(toDate)
    THEN CURRENT_KEYWORDS[1]
    ELSE toDate

(* utils.ts, lines 50-116; no step of the try block throws on a string, so
   the catch branch is not taken *)
ParseDateRange(dateString, includeDuration) ==
    IF dateString = << >>
    THEN [ fromDate |-> NullDate, toDate |-> NullDate,
           duration |-> IF includeDuration THEN NullDate ELSE AbsentDuration ]
    ELSE
        LET cut == includeDuration /\ Includes(dateString, << Middot >>)
            parts == Split(dateString, << Middot >>)
            dateRangePart == IF cut THEN Trim(parts[1]) ELSE dateString
            duration == IF cut THEN DateString(Trim(parts[2])) ELSE NullDate
            dateParts == Split(dateRangePart, DATE_RANGE_SEPARATOR)
            singleDate == Trim(dateRangePart)
        IN [ fromDate |-> IF Includes(dateRangePart, DATE_RANGE_SEPARATOR)
                          THEN DateString(Trim(dateParts[1]))
                          ELSE OrNull(singleDate),
             toDate |-> IF Includes(dateRangePart, DATE_RANGE_SEPARATOR)
                        THEN DateString(NormalizeToDate(Trim(dateParts[2])))
                        ELSE IF includeDuration THEN NullDate ELSE OrNull(singleDate),
             duration |-> IF includeDuration THEN duration ELSE AbsentDuration ]

(* the end dates a range is written with: the four keywords in several
   cases, words that only contain or resemble a keyword, and dates *)
EndDates ==
    { << "P", "r", "e", "s", "e", "n", "t" >>,
      << "p", "r", "e", "s", "e", "n", "t" >>,
      << "P", "R", "E", "S", "E", "N", "T" >>,
      << "C", "u", "r", "r", "e", "n", "t" >>,
      << "c", "U", "r", "R", "e", "N", "t" >>,
      << "N", "o", "w" >>,
      << "n", "o", "w" >>,
      << "N", "O", "W" >>,
      << "O", "n", "g", "o", "i", "n", "g" >>,
      << "o", "n", "g", "o", "i", "n", "g" >>,
      << "N", "o", "w", "a", "d", "a", "y", "s" >>,
      << "P", "r", "e", "s", "e", "n", "t", "l", "y" >>,
      << "t", "o", " ", "n", "o", "w" >>,
      << "2", "0", "2", "1" >>,
      << "D", "e", "c", " ", "2", "0", "2", "1" >>,
      << "D", "E", "C", " ", "2", "0", "2", "1" >> }

FromDates ==
    { << "2", "0", "2", "0" >>,
      << "J", "a", "n", " ", "2", "0", "2", "0" >> }

(* what follows the end date: nothing, or the duration after a middle dot *)
DurationSuffixes ==
    { << >>,
      << " ", Middot, " ", "1", " ", "y", "r" >> }

Spaces(n) == [k \in 1..n |-> " "]
Pads == { Spaces(n) : n \in 0..MaxPad }

(* a range "<from> - <end>" with whitespace around the end date, a single
   date, or the empty string *)
DateInputs ==
    [ shape : {"range"}, from : FromDates, end : EndDates,
      before : Pads, after : Pads, suffix : DurationSuffixes,
      includeDuration : BOOLEAN ]
    \cup
    [ shape : {"single"}, from : {<< >>}, end : EndDates \cup {<< >>},
      before : Pads, after : Pads, suffix : {<< >>},
      includeDuration : BOOLEAN ]

DateStringOf(input) ==
    IF input.shape = "range"
    THEN input.from \o DATE_RANGE_SEPARATOR \o input.before \o input.end
            \o input.after \o input.suffix
    ELSE IF input.end = << >> THEN << >>
    ELSE input.before \o input.end \o input.after

InitDates ==
    /\ PipelineIdle
    /\ RegistryConstructed
    /\ fn = "parseDateRange"
    /\ args \in DateInputs
    /\ result = << >>
    /\ step = 0

CallParseDateRange ==
    /\ fn = "parseDateRange"
    /\ step = 0
    /\ result' = ParseDateRange(DateStringOf(args), args.includeDuration)
    /\ step' = 1
    /\ UNCHANGED << fn, args, registryVars, pipelineVars >>

NextDates == CallParseDateRange

SpecDates == InitDates /\ [][NextDates]_vars

(* the text the caller wrote as the end of the range: what follows the
   separator, without the duration when the duration is asked for *)
EndDateInput(input) ==
    IF input.includeDuration THEN input.end
    ELSE Trim(input.end \o input.after \o input.suffix)

EqualsKeywordIgnoringCase(s) ==
    \E k \in DOMAIN CURRENT_KEYWORDS :
        /\ Len(s) = Len(CURRENT_KEYWORDS[k])
        /\ \A h \in DOMAIN s :
              \/ s[h] = CURRENT_KEYWORDS[k][h]
              \/ CharToLowerCase(s[h]) = CURRENT_KEYWORDS[k][h]
              \/ s[h] = CharToLowerCase(CURRENT_KEYWORDS[k][h])

(* C21: for a range "<from> - <end>", parseDateRange returns 'Present' as
   toDate when the end date equals one of Present, Current, Now, Ongoing
   ignoring case, with and without includeDuration, and returns every other
   end date trimmed and otherwise unchanged *)
C21_KeywordsNormalizeToPresent ==
    (fn = "parseDateRange" /\ step = 1 /\ args.shape = "range") =>
        /\ result.toDate.kind = "string"
        /\ IF EqualsKeywordIgnoringCase(EndDateInput(args))
           THEN result.toDate.value = << "P", "r", "e", "s", "e", "n", "t" >>
           ELSE result.toDate.value = EndDateInput(args)

(* "2020 -  NOW  * 1 yr" parsed with includeDuration gave toDate Present *)
C21_Witness ==
    /\ fn = "parseDateRange"
    /\ step = 1
    /\ args.shape = "range"
    /\ args.includeDuration
    /\ args.end = << "N", "O", "W" >>
    /\ args.before = << " " >>
    /\ args.suffix # << >>
    /\ result.toDate = DateString(<< "P", "r", "e", "s", "e", "n", "t" >>)
    /\ result.duration = DateString(<< "1", " ", "y", "r" >>)

-----------------------------------------------------------------------------
(* extractMeta of parsers/experience-parser.ts and the three line
   classifiers of scrapers/person/utils.ts.  "^" stands for the letter
   U+00C2 that precedes the middle dot in DATE_PATTERNS.DURATION_SEPARATOR. *)

MaxLines == 3

MAX_LOCATION_LENGTH == 100
MAX_LOCATION_WORD_COUNT == 6
MIN_DESCRIPTION_WORD_COUNT == 6
MIN_DESCRIPTION_LENGTH == 100

Acirc == "^"
DURATION_SEPARATOR == << Acirc, Middot >>

Digits == { "0", "1", "2", "3", "4", "5", "6", "7", "8", "9" }

(* /\d/ *)
HasDigit(text) == \E k \in DOMAIN text : text[k] \in Digits

(* DATE_PATTERNS.YEAR_REGEX, /\d{4}/ *)
HasYear(text) ==
    \E k \in 1..(Len(text) - 3) : \A h \in k..(k + 3) : text[h] \in Digits

(* DATE_PATTERNS.DURATION_REGEX, /\d+\s+(yr|yrs|mo|mos)/: a digit, one or
   more blanks, then yr or mo *)
HasDuration(text) ==
    \E k \in DOMAIN text : \E m \in (k + 2)..(Len(text) - 1) :
        /\ text[k] \in Digits
        /\ \A h \in (k + 1)..(m - 1) : text[h] = " "
        /\ \/ << text[m], text[m + 1] >> = << "y", "r" >>
           \/ << text[m], text[m + 1] >> = << "m", "o" >>

(* text.split(/\s+/).length: one more than the number of runs of blanks *)
WordCount(text) ==
    1 + Cardinality({ k \in DOMAIN text : text[k] = " " /\ (k = 1 \/ text[k - 1] # " ") })

(* utils.ts, lines 172-180 *)
IsDateLine(text) ==
    LET hasDateSeparator == Includes(text, DATE_RANGE_SEPARATOR)
        hasCurrentKeyword ==
            \E k \in DOMAIN CURRENT_KEYWORDS : Includes(text, CURRENT_KEYWORDS[k])
    IN (hasDateSeparator \/ hasCurrentKeyword) /\ (HasDuration(text) \/ HasYear(text))

(* utils.ts, lines 185-192 *)
IsLocationLike(text) ==
    /\ Len(text) < MAX_LOCATION_LENGTH
    /\ ~Includes(text, DURATION_SEPARATOR)
    /\ ~HasDigit(text)
    /\ WordCount(text) <= MAX_LOCATION_WORD_COUNT

(* utils.ts, lines 197-202 *)
IsDescriptionLike(text) ==
    \/ WordCount(text) > MIN_DESCRIPTION_WORD_COUNT
    \/ Len(text) > MIN_DESCRIPTION_LENGTH

Undefined == [kind |-> "undefined", value |-> << >>]

(* parsed.x ?? undefined *)
OrUndefined(v) == IF v.kind = "null" THEN Undefined ELSE v

(* !x of a string | undefined *)
Not(v) == v.kind # "string" \/ v.value = << >>

NoMeta ==
    [ fromDate |-> Undefined, toDate |-> Undefined, duration |-> Undefined,
      location |-> Undefined, description |-> Undefined ]

WithDates(meta, line) ==
    LET parsed == ParseDateRange(line, TRUE)
    IN [ meta EXCEPT !.fromDate = OrUndefined(parsed.fromDate),
                     !.toDate = OrUndefined(parsed.toDate),
                     !.duration = OrUndefined(parsed.duration) ]

(* experience-parser.ts, lines 147-164: the body of the loop *)
ExtractMetaLine_DescriptionFirst(meta, line) ==
    IF Not(meta.description) /\ IsDescriptionLike(line)
    THEN [meta EXCEPT !.description = DateString(line)]
    ELSE IF Not(meta.fromDate) /\ IsDateLine(line)
    THEN WithDates(meta, line)
    ELSE IF Not(meta.location) /\ IsLocationLike(line)
    THEN [meta EXCEPT !.location = DateString(line)]
    ELSE meta
ExtractMetaLine(meta, line) ==
    IF Not(meta.fromDate) /\ IsDateLine(line)
    THEN WithDates(meta, line)
    ELSE IF Not(meta.location) /\ IsLocationLike(line)
    THEN [meta EXCEPT !.location = DateString(line)]
    ELSE IF Not(meta.description) /\ IsDescriptionLike(line)
    THEN [meta EXCEPT !.description = DateString(line)]
    ELSE meta

(* the lines of an entry, trimmed and non-empty as both callers pass them
   (experience-parser.ts, lines 16 and 107) *)
MetaLines ==
    { << "J", "a", "n", " ", "2", "0", "2", "0", " ", "-", " ",
         "P", "r", "e", "s", "e", "n", "t", " ", Middot, " ", "2", " ", "y", "r", "s" >>,
      << "2", "0", "1", "8", " ", "-", " ", "2", "0", "2", "0" >>,
      << Middot, " ", "2", "0", "2", "0", " ", "-", " ", "2", "0", "2", "1" >>,
      << "R", "e", "m", "o", "t", "e" >>,
      << "B", "e", "r", "l", "i", "n" >>,
      << "B", "u", "i", "l", "t", " ", "i", "t", " ", "a", "l", "l", " ",
         "i", "n", " ", "o", "n", "e", " ", "b", "i", "g", " ", "t", "e", "a", "m" >>,
      [k \in 1..(MIN_DESCRIPTION_LENGTH + 1) |-> "x"],
      << "R", "o", "o", "m", " ", "5" >> }

MetaLineLists == UNION { [1..n -> MetaLines] : n \in 0..MaxLines }

InitMeta ==
    /\ PipelineIdle
    /\ RegistryConstructed
    /\ fn = "extractMeta"
    /\ args \in [lines : MetaLineLists]
    /\ result = NoMeta
    /\ step = 0

(* one turn of the loop of extractMeta *)
ExtractMetaTurn ==
    /\ fn = "extractMeta"
    /\ step < Len(args.lines)
    /\ result' = ExtractMetaLine(result, args.lines[step + 1])
    /\ step' = step + 1
    /\ UNCHANGED << fn, args, registryVars, pipelineVars >>

NextMeta == ExtractMetaTurn

SpecMeta == InitMeta /\ [][NextMeta]_vars

Defined(v) == v.kind = "string"

(* a field that has a value keeps it *)
Kept(field) == Defined(result[field]) => result'[field] = result[field]

(* C22 as stated: each field is taken from the first line that matches it
   and no later line overwrites it *)
C22_FirstMatchNeverOverwritten ==
    [][ fn = "extractMeta" =>
            /\ Kept("fromDate") /\ Kept("toDate") /\ Kept("duration")
            /\ Kept("location") /\ Kept("description") ]_vars

(* line k was taken as the date line: it is a date line and no date line
   before it gave a start date *)
TakenAsDate(lines, k) ==
    /\ IsDateLine(lines[k])
    /\ \A h \in 1..(k - 1) :
          IsDateLine(lines[h]) => Not(ParseDateRange(lines[h], TRUE).fromDate)

FirstAmong(set) == CHOOSE k \in set : \A h \in set : k <= h
LastAmong(set) == CHOOSE k \in set : \A h \in set : k >= h

MetaOfPrefix(lines, n) ==
    LET dates == { k \in 1..n : TakenAsDate(lines, k) }
        locations == { k \in 1..n : ~TakenAsDate(lines, k) /\ IsLocationLike(lines[k]) }
        descriptions == { k \in 1..n : ~TakenAsDate(lines, k) /\ IsDescriptionLike(lines[k]) }
    IN [ dates |-> IF dates = {} THEN << Undefined, Undefined, Undefined >>
                   ELSE LET parsed == ParseDateRange(lines[LastAmong(dates)], TRUE)
                        IN << OrUndefined(parsed.fromDate), OrUndefined(parsed.toDate),
                              OrUndefined(parsed.duration) >>,
         location |-> IF locations = {} THEN Undefined
                      ELSE DateString(lines[FirstAmong(locations)]),
         description |-> IF descriptions = {} THEN Undefined
                         ELSE DateString(lines[FirstAmong(descriptions)]) ]

ChangedGroups ==
    Cardinality(
        { g \in { << "fromDate", "toDate", "duration" >>, << "location" >>, << "description" >> } :
            \E k \in DOMAIN g : result'[g[k]] # result[g[k]] })

(* C22: a line is tested as date while no start date is set, else as
   location, else as description, and changes at most one of the three;
   location and description come from the first line that is not taken as
   date and matches, and are never overwritten; the date fields come from
   the first date line that gives a start date and are then never
   overwritten, but a date line that gives no start date is overwritten by
   the next date line *)
C22_PriorityOrderFirstMatch ==
    /\ [](fn = "extractMeta" =>
            LET expected == MetaOfPrefix(args.lines, step)
            IN /\ << result.fromDate, result.toDate, result.duration >> = expected.dates
               /\ result.location = expected.location
               /\ result.description = expected.description)
    /\ [][ fn = "extractMeta" =>
            /\ ChangedGroups <= 1
            /\ Kept("location")
            /\ Kept("description")
            /\ ~Not(result.fromDate) =>
                  << result.fromDate, result.toDate, result.duration >>'
                      = << result.fromDate, result.toDate, result.duration >> ]_vars

(* the first line is a date line of more than six words, taken as date and
   not as description; the description comes from the third line *)
C22_Witness ==
    /\ fn = "extractMeta"
    /\ step = 3
    /\ IsDateLine(args.lines[1]) /\ IsDescriptionLike(args.lines[1])
    /\ IsLocationLike(args.lines[2])
    /\ IsDateLine(args.lines[3]) /\ IsDescriptionLike(args.lines[3])
    /\ result.toDate = DateString(<< "P", "r", "e", "s", "e", "n", "t" >>)
    /\ result.location = DateString(args.lines[2])
    /\ result.description = DateString(args.lines[3])

-----------------------------------------------------------------------------
(* parseRaw on one block *)

OneBlock == fn = "parseRaw" /\ step = 1 /\ Len(args.sections) = 1

(* the value the claim gives an anchor of an email block: the href without
   mailto: when it starts with it, the anchor text otherwise *)
EmailValue(anchor) ==
    LET href == Trim(anchor.href)
    IN IF href # << >> /\ href[1] = "mailto:"
       THEN SubSeq(href, 2, Len(href))
       ELSE Trim(anchor.text)

EmailValues(section) == [k \in DOMAIN section.anchors |-> EmailValue(section.anchors[k])]

(* C23 as stated: an email block yields one record for each anchor *)
C23_OneRecordPerAnchor ==
    (OneBlock /\ args.sections[1].heading = "Email") =>
        /\ Len(result) = Len(args.sections[1].anchors)
        /\ \A k \in DOMAIN result :
              /\ result[k].type = "email"
              /\ result[k].value = EmailValues(args.sections[1])[k]

(* the anchors of an email block that give a record: the value is not empty
   and no earlier anchor of the block has it *)
RecordedAnchors(section) ==
    LET values == EmailValues(section)
    IN { k \in DOMAIN values :
            /\ values[k] # << >>
            /\ \A h \in 1..(k - 1) : values[h] # values[k] }

(* C23: an email block yields, in anchor order, one record of type email
   for each anchor whose value is not empty and new; the value is the href
   without mailto: when the href starts with it and the anchor text
   otherwise; the block {Email, mailto:a} yields exactly {email, a}; a
   block whose heading matches no keyword yields no record *)
C23_EmailBlockRecords ==
    /\ (OneBlock /\ args.sections[1].heading = "Email") =>
          LET section == args.sections[1]
              recorded == RecordedAnchors(section)
          IN /\ Len(result) = Cardinality(recorded)
             /\ \A k \in recorded :
                   result[Cardinality({ h \in recorded : h <= k })] =
                       [ type |-> "email",
                         value |-> EmailValues(section)[k],
                         label |-> section.label ]
    /\ (OneBlock /\ args.sections[1].heading = "Email"
               /\ args.sections[1].anchors = << MailtoAText >>) =>
          result = << [type |-> "email", value |-> << "a" >>, label |-> ""] >>
    /\ (OneBlock /\ args.sections[1].heading = "Other") => result = << >>

(* an email block of five anchors gave one record: a link without text, a
   bare mailto: and an empty anchor give none, and the last repeats a *)
C23_Witness ==
    /\ OneBlock
    /\ args.sections[1].heading = "Email"
    /\ Len(args.sections[1].anchors) = 5
    /\ result = << [type |-> "email", value |-> << "a" >>, label |-> ""] >>

-----------------------------------------------------------------------------
(* RawTextExtractor.extract on the lines of a node's rendered text *)

RawTextReturned == fn = "raw-text" /\ step = 1

(* the rendered text contains a character that is not whitespace *)
HasVisibleText(lines) == \E k \in DOMAIN lines : Trim(lines[k]) # << >>

(* the places of the lines in `among`, each the first of its run of equal
   trimmed lines *)
RunStarts(lines, among) ==
    { k \in among :
        LET before == { h \in among : h < k }
        IN before = {} \/ Trim(lines[LastAmong(before)]) # Trim(lines[k]) }

TextsAre(lines, among) ==
    LET starts == RunStarts(lines, among)
    IN /\ result.kind # "null"
       /\ Len(result.texts) = Cardinality(starts)
       /\ Len(result.texts) > 0
       /\ \A k \in starts :
             result.texts[Cardinality({ h \in starts : h <= k })] = Trim(lines[k])

(* C24 as stated: any visible text gives an ExtractedText whose texts are
   the trimmed non-empty lines with adjacent equal lines collapsed *)
C24_AnyTextGivesTexts ==
    (RawTextReturned /\ HasVisibleText(args.lines)) =>
        TextsAre(args.lines, { k \in DOMAIN args.lines : Trim(args.lines[k]) # << >> })

(* the lines the extractor keeps: trimmed, not empty and shorter than
   MAX_FALLBACK_TEXT_LENGTH *)
FittingLines(lines) ==
    { k \in DOMAIN lines :
        Len(Trim(lines[k])) > 0 /\ Len(Trim(lines[k])) < MAX_FALLBACK_TEXT_LENGTH }

(* C24: extract returns an ExtractedText with non-empty texts exactly when
   some line of the rendered text has a trimmed length of 1 to 499, and null
   otherwise; the texts are those lines, trimmed, in document order, with
   runs of equal lines that are adjacent among them collapsed to one *)
C24_FittingLinesGiveTexts ==
    RawTextReturned =>
        IF FittingLines(args.lines) = {}
        THEN result.kind = "null"
        ELSE TextsAre(args.lines, FittingLines(args.lines))

(* two equal lines with an oversized line between them were collapsed to
   one text *)
C24_Witness ==
    /\ RawTextReturned
    /\ Len(args.lines) = 3
    /\ Len(args.lines[2]) = MAX_FALLBACK_TEXT_LENGTH
    /\ Trim(args.lines[1]) = Trim(args.lines[3])
    /\ result.kind # "null"
    /\ Len(result.texts) = 1

-----------------------------------------------------------------------------
(* detectRateLimit of src/utils.ts, which checkRateLimit of scrapers/utils.ts
   awaits and does nothing else.  A URL is a sequence of pieces: "/" and the
   words between; the body text is a string of characters. *)

CheckpointUrl == << "https://www.", "linkedin.com", "/", "checkpoint", "/", "lg" >>
AuthwallUrl == << "https://www.", "linkedin.com", "/", "authwall" >>
ProfileUrl == << "https://www.", "linkedin.com", "/", "in", "/", "someone" >>
FeedUrl == << "https://www.", "linkedin.com", "/", "feed" >>

RateLimitUrls == { CheckpointUrl, AuthwallUrl, ProfileUrl, FeedUrl }

(* utils.ts, lines 69-74 *)
limitPhrases ==
    << << "t", "o", "o", " ", "m", "a", "n", "y", " ", "r", "e", "q", "u", "e", "s", "t", "s" >>,
       << "r", "a", "t", "e", " ", "l", "i", "m", "i", "t" >>,
       << "s", "l", "o", "w", " ", "d", "o", "w", "n" >>,
       << "t", "r", "y", " ", "a", "g", "a", "i", "n", " ", "l", "a", "t", "e", "r" >> >>

(* what page.locator('body').textContent gives: null, a string, or it
   throws (the timeout of one second) *)
BodyThrows == [kind |-> "throws", value |-> << >>]
BodyNull == [kind |-> "null", value |-> << >>]
BodyText(s) == [kind |-> "string", value |-> s]

BodyOutcomes ==
    { BodyThrows, BodyNull, BodyText(<< >>),
      BodyText(<< "W", "e", "l", "c", "o", "m", "e" >>),
      BodyText(<< "r", "a", "t", "e", "d" >>),
      BodyText(<< "T", "o", "o", " ", "M", "a", "n", "y", " ", "R", "e", "q", "u", "e", "s", "t", "s" >>),
      BodyText(<< "a", " ", "r", "a", "t", "e", " ", "l", "i", "m", "i", "t", "." >>),
      BodyText(<< "S", "L", "O", "W", " ", "D", "O", "W", "N" >>),
      BodyText(<< "T", "r", "y", " ", "a", "g", "a", "i", "n", " ", "l", "a", "t", "e", "r" >>) }

(* what locator(...).count() gives for the CAPTCHA iframes: a count, or -1
   when it throws *)
CountThrows == -1
MaxCaptcha == 2
CaptchaOutcomes == { CountThrows } \cup 0..MaxCaptcha

(* utils.ts, lines 42-45 *)
IsCheckpointUrl(currentUrl) ==
    \/ Includes(currentUrl, << "linkedin.com", "/", "checkpoint" >>)
    \/ Includes(currentUrl, << "authwall" >>)

(* utils.ts, lines 67-75 *)
HasLimitPhrase(bodyText) ==
    /\ bodyText.kind = "string"
    /\ bodyText.value # << >>
    /\ \E k \in DOMAIN limitPhrases :
          Includes(ToLowerCase(bodyText.value), limitPhrases[k])

Detecting == [outcome |-> "pending", swallowed |-> 0]

InitRateLimit ==
    /\ PipelineIdle
    /\ RegistryConstructed
    /\ fn = "detectRateLimit"
    /\ args \in [url : RateLimitUrls, captcha : CaptchaOutcomes, body : BodyOutcomes]
    /\ result = Detecting
    /\ step = 0

(* utils.ts, lines 40-51: the throw is outside every try block *)
DetectCheckpoint ==
    /\ fn = "detectRateLimit"
    /\ step = 0
    /\ result' = IF IsCheckpointUrl(args.url)
                 THEN [result EXCEPT !.outcome = "RateLimitError"]
                 ELSE result
    /\ step' = 1
    /\ UNCHANGED << fn, args, registryVars, pipelineVars >>

(* utils.ts, lines 53-63: the RateLimitError is thrown inside the try block
   whose catch is empty, as is the failure of count() *)
DetectCaptcha ==
    /\ fn = "detectRateLimit"
    /\ step = 1
    /\ result.outcome = "pending"
    /\ result' = IF args.captcha # CountThrows /\ args.captcha > 0
                 THEN [result EXCEPT !.swallowed = @ + 1]
                 ELSE result
    /\ step' = 2
    /\ UNCHANGED << fn, args, registryVars, pipelineVars >>

(* utils.ts, lines 65-83: the same for the body text; the function then
   returns *)
DetectLimitPhrase ==
    /\ fn = "detectRateLimit"
    /\ step = 2
    /\ result.outcome = "pending"
    /\ result' = [ outcome |-> "returned",
                   swallowed |-> IF HasLimitPhrase(args.body)
                                 THEN result.swallowed + 1
                                 ELSE result.swallowed ]
    /\ step' = 3
    /\ UNCHANGED << fn, args, registryVars, pipelineVars >>

NextRateLimit ==
    \/ DetectCheckpoint
    \/ DetectCaptcha
    \/ DetectLimitPhrase

SpecRateLimit == InitRateLimit /\ [][NextRateLimit]_vars

(* the three situations in which the page is rate limited *)
RateLimited(page) ==
    \/ IsCheckpointUrl(page.url)
    \/ (page.captcha # CountThrows /\ page.captcha > 0)
    \/ HasLimitPhrase(page.body)

(* C25: detectRateLimit, and so checkRateLimit, does not return normally
   when the page is rate limited: it throws RateLimitError *)
C25_ThrowsWhenRateLimited ==
    (fn = "detectRateLimit" /\ result.outcome = "returned") => ~RateLimited(args)

-----------------------------------------------------------------------------
(* isLoggedIn (models/company.ts, lines 271-311).  The page is its URL and
   what the two navigation queries give: a count, or CountThrows. *)

MaxNav == 1

LoginUrl == << "https://www.", "linkedin.com", "/", "login" >>
UasLoginUrl == << "https://www.", "linkedin.com", "/", "uas", "/", "login" >>
EmailChallengeUrl ==
    << "https://www.", "linkedin.com", "/", "uas", "/", "consumer-email-challenge" >>
ChallengeUrl == << "https://www.", "linkedin.com", "/", "challenge", "/", "x" >>
FeedThenLoginUrl ==
    << "https://www.", "linkedin.com", "/", "feed", "/", "?next=", "/", "login" >>
PublicUrl == << "https://www.", "google.com" >>
MessagingUrl == << "https://www.", "linkedin.com", "/", "messaging" >>
NotificationsUrl == << "https://www.", "linkedin.com", "/", "notifications" >>
MyNetworkUrl == << "https://www.", "linkedin.com", "/", "mynetwork", "/" >>

LoginCheckUrls ==
    { LoginUrl, UasLoginUrl, EmailChallengeUrl, ChallengeUrl, FeedThenLoginUrl,
      CheckpointUrl, AuthwallUrl, PublicUrl, ProfileUrl, FeedUrl, MessagingUrl,
      NotificationsUrl, MyNetworkUrl }

(* company.ts, lines 275-282 *)
authBlockers ==
    << << "/", "login" >>, << "/", "authwall" >>, << "/", "checkpoint" >>,
       << "/", "challenge" >>, << "/", "uas", "/", "login" >>,
       << "/", "uas", "/", "consumer-email-challenge" >> >>

(* company.ts, lines 297-302 *)
authenticatedOnlyPages ==
    << << "/", "feed" >>, << "/", "mynetwork" >>, << "/", "messaging" >>,
       << "/", "notifications" >> >>

IncludesSome(url, patterns) == \E k \in DOMAIN patterns : Includes(url, patterns[k])

(* company.ts, lines 271-311 *)
IsLoggedIn_NavFirst(page) ==
    IF page.oldCount = CountThrows \/ page.newCount = CountThrows THEN FALSE
    ELSE page.oldCount > 0 \/ page.newCount > 0
            \/ IncludesSome(page.url, authenticatedOnlyPages)
IsLoggedIn(page) ==
    IF IncludesSome(page.url, authBlockers) THEN FALSE
    ELSE IF page.oldCount = CountThrows THEN FALSE
    ELSE IF page.newCount = CountThrows THEN FALSE
    ELSE LET hasNavElements == page.oldCount > 0 \/ page.newCount > 0
             isAuthenticatedPage == IncludesSome(page.url, authenticatedOnlyPages)
         IN hasNavElements \/ isAuthenticatedPage

NavOutcomes == { CountThrows } \cup 0..MaxNav

InitLogin ==
    /\ PipelineIdle
    /\ RegistryConstructed
    /\ fn = "isLoggedIn"
    /\ args \in [url : LoginCheckUrls, oldCount : NavOutcomes, newCount : NavOutcomes]
    /\ result = << >>
    /\ step = 0

CallIsLoggedIn ==
    /\ fn = "isLoggedIn"
    /\ step = 0
    /\ result' = IsLoggedIn(args)
    /\ step' = 1
    /\ UNCHANGED << fn, args, registryVars, pipelineVars >>

NextLogin == CallIsLoggedIn

SpecLogin == InitLogin /\ [][NextLogin]_vars

(* the URL holds one of the six auth-blocker paths *)
OnAuthBlocker(url) ==
    \E k \in 1..(Len(url) - 1) :
        /\ url[k] = "/"
        /\ url[k + 1] \in { "login", "authwall", "checkpoint", "challenge", "uas" }
        /\ url[k + 1] = "uas" =>
              /\ k + 3 <= Len(url)
              /\ url[k + 2] = "/"
              /\ url[k + 3] \in { "login", "consumer-email-challenge" }

OnAuthenticatedPage(url) ==
    \E k \in 1..(Len(url) - 1) :
        /\ url[k] = "/"
        /\ url[k + 1] \in { "feed", "mynetwork", "messaging", "notifications" }

(* C26: isLoggedIn returns false on an auth-blocker URL whatever the
   navigation queries give, false when a query throws, and true only if a
   navigation element was found or the URL is an authenticated-only page *)
C26_AuthBlockersNeverLoggedIn ==
    (fn = "isLoggedIn" /\ step = 1) =>
        /\ OnAuthBlocker(args.url) => result = FALSE
        /\ (args.oldCount = CountThrows \/ args.newCount = CountThrows) => result = FALSE
        /\ result = TRUE =>
              \/ (args.oldCount # CountThrows /\ args.oldCount > 0)
              \/ (args.newCount # CountThrows /\ args.newCount > 0)
              \/ OnAuthenticatedPage(args.url)

(* a page whose URL holds /feed and /login and that shows navigation
   elements is not logged in *)
C26_Witness ==
    /\ fn = "isLoggedIn"
    /\ step = 1
    /\ args.url = FeedThenLoginUrl
    /\ args.oldCount > 0
    /\ args.newCount > 0
    /\ result = FALSE

-----------------------------------------------------------------------------
(* The strategy-level ExtractionPipeline (pipeline.ts, lines 295-445):
   strategies tried in priority order, each item interpreted and validated
   by the interpreter.  A strategy is what its calls give on the page; an
   item is what extractItem, interpret and validate give for it. *)

MaxStrategies == 2

ItemExtracted(c) == [kind |-> "valid", confidence |-> c]
ItemNull == [kind |-> "null", confidence |-> 0]              \* extractItem gave null
ItemUninterpreted == [kind |-> "uninterpreted", confidence |-> 60]
ItemInvalid == [kind |-> "invalid", confidence |-> 60]
ItemThrows == [kind |-> "throws", confidence |-> 0]

CannotHandle == [canHandle |-> "false", items |-> << >>]
CanHandleThrows == [canHandle |-> "throws", items |-> << >>]
FindsItems(found) == [canHandle |-> "true", items |-> found]

StrategyOutcomes ==
    { CannotHandle,
      CanHandleThrows,
      FindsItems(<< >>),
      FindsItems(<< ItemNull, ItemThrows >>),
      FindsItems(<< ItemUninterpreted, ItemInvalid >>),
      FindsItems(<< ItemExtracted(20) >>),
      FindsItems(<< ItemExtracted(40), ItemNull >>),
      FindsItems(<< ItemExtracted(20), ItemExtracted(60) >>),
      FindsItems(<< ItemExtracted(40), ItemExtracted(60) >>),
      FindsItems(<< ItemInvalid, ItemExtracted(60) >>) }

StrategyLists == UNION { [1..n -> StrategyOutcomes] : n \in 0..MaxStrategies }

(* pipeline.ts, lines 359-384: the items pushed to results *)
IsResult(item) == item.kind = "valid"
StrategyResults(found) == SelectSeq(found, IsResult)

(* pipeline.ts, line 393: avgConfidence >= confidenceThreshold, with
   avgConfidence = totalConfidence / results.length *)
AverageMeetsThreshold(results, threshold) ==
    SumConfidence(results) >= threshold * Len(results)

(* pipeline.ts, lines 317-325 *)
NoStrategyDiagnostics ==
    [ strategiesAttempted |-> << >>, strategiesFailed |-> << >>,
      strategyUsed |-> 0, itemsFound |-> 0, itemsParsed |-> 0, itemsFailed |-> 0,
      capturedHtml |-> FALSE ]

StrategyRunning ==
    [ returned |-> FALSE, items |-> << >>, strategy |-> 0,
      confidence |-> [num |-> 0, den |-> 1],
      diagnostics |-> NoStrategyDiagnostics ]

(* the strategies are named by their place in the sorted list; 0 is null in
   diagnostics.strategyUsed and 'none' in the result *)
InitStrategies ==
    /\ PipelineIdle
    /\ RegistryConstructed
    /\ fn = "strategies"
    /\ args \in [ strategies : StrategyLists,
                  confidenceThreshold : { DefaultThreshold, 25 },
                  captureHtmlOnFailure : BOOLEAN ]
    /\ result = StrategyRunning
    /\ step = 0

(* pipeline.ts, lines 327-417: one turn of the loop over the strategies *)
TryStrategy ==
    /\ fn = "strategies"
    /\ ~result.returned
    /\ step < Len(args.strategies)
    /\ LET name == step + 1
           strategy == args.strategies[name]
           results == StrategyResults(strategy.items)
           attempted == [result.diagnostics EXCEPT !.strategiesAttempted = Append(@, name)]
           failed == [attempted EXCEPT !.strategiesFailed = Append(@, name)]
           counted == [ attempted EXCEPT
                          !.itemsFound = Len(strategy.items),
                          !.itemsParsed = @ + Len(results),
                          !.itemsFailed = @ + Len(strategy.items) - Len(results) ]
       IN result' =
            IF strategy.canHandle # "true" \/ Len(strategy.items) = 0
            THEN [result EXCEPT !.diagnostics = failed]
            ELSE IF Len(results) > 0 /\ AverageMeetsThreshold(results, args.confidenceThreshold)
            THEN [ returned |-> TRUE,
                   items |-> results,
                   strategy |-> name,
                   confidence |-> [num |-> SumConfidence(results), den |-> Len(results)],
                   diagnostics |-> [counted EXCEPT !.strategyUsed = name] ]
            ELSE [ result EXCEPT
                     !.diagnostics = [counted EXCEPT !.strategiesFailed = Append(@, name)] ]
    /\ step' = step + 1
    /\ UNCHANGED << fn, args, registryVars, pipelineVars >>

(* pipeline.ts, lines 419-443: no strategy was accepted *)
AllStrategiesFailed ==
    /\ fn = "strategies"
    /\ ~result.returned
    /\ step = Len(args.strategies)
    /\ result' = [ returned |-> TRUE,
                   items |-> << >>,
                   strategy |-> 0,
                   confidence |-> [num |-> 0, den |-> 1],
                   diagnostics |->
                       [result.diagnostics EXCEPT !.capturedHtml = args.captureHtmlOnFailure] ]
    /\ UNCHANGED << fn, args, step, registryVars, pipelineVars >>

NextStrategies ==
    \/ TryStrategy
    \/ AllStrategiesFailed

SpecStrategies == InitStrategies /\ [][NextStrategies]_vars

HasResults(strategy) ==
    strategy.canHandle = "true" /\ Len(StrategyResults(strategy.items)) > 0

(* C27: when some strategy parsed items below the threshold and no strategy
   reached it, the run returns remembered items and not the empty result
   with strategy 'none' *)
C27_BelowThresholdRemembered ==
    ( /\ fn = "strategies"
      /\ result.returned
      /\ \E k \in DOMAIN args.strategies : HasResults(args.strategies[k]) ) =>
        /\ result.items # << >>
        /\ result.strategy # 0

-----------------------------------------------------------------------------
(* retryAsync of src/utils.ts, lines 4-37.  fn is the outcome of each of its
   calls: a value, or a thrown object of some class. *)

MaxAttempts == 3

(* the classes of the thrown objects: TimeoutError and RateLimitError extend
   Error, and a thrown string is an instance of no class *)
ThrownClasses == { "Error", "TimeoutError", "RateLimitError", "string" }

(* e instanceof exc *)
InstanceOf(class, exc) ==
    \/ class = exc
    \/ (exc = "Error" /\ class \in { "TimeoutError", "RateLimitError" })

(* utils.ts, line 21: exceptions.some((exc) => e instanceof exc) *)
ShouldRetry_Always(class, exceptions) == TRUE
ShouldRetry(class, exceptions) ==
    \E k \in DOMAIN exceptions : InstanceOf(class, exceptions[k])

CallSucceeds == "value"
FnOutcomes == { CallSucceeds } \cup ThrownClasses

(* the options: those of safeClick (the default exceptions, [Error]) and
   lists of subclasses *)
ExceptionLists ==
    { << "Error" >>, << "TimeoutError" >>, << "TimeoutError", "RateLimitError" >>, << >> }

NoException == [class |-> "null", call |-> 0]
Retrying == [outcome |-> "pending", value |-> 0, exception |-> NoException, calls |-> 0]

InitRetry ==
    /\ PipelineIdle
    /\ RegistryConstructed
    /\ fn = "retryAsync"
    /\ args \in [ maxAttempts : 0..MaxAttempts,
                  exceptions : ExceptionLists,
                  outcomes : [1..MaxAttempts -> FnOutcomes] ]
    /\ result = Retrying
    /\ step = 0

(* utils.ts, lines 16-34: one turn of the loop, with the throw of line 36
   when the turn ends in break; step is attempt, the value of a call is its
   number *)
CallFn ==
    /\ fn = "retryAsync"
    /\ result.outcome = "pending"
    /\ step < args.maxAttempts
    /\ LET call == step + 1
           thrown == [class |-> args.outcomes[call], call |-> call]
       IN result' =
            IF args.outcomes[call] = CallSucceeds
            THEN [result EXCEPT !.outcome = "returned", !.value = call, !.calls = call]
            ELSE IF ShouldRetry(thrown.class, args.exceptions) /\ step < args.maxAttempts - 1
            THEN [result EXCEPT !.exception = thrown, !.calls = call]
            ELSE [result EXCEPT !.outcome = "thrown", !.exception = thrown, !.calls = call]
    /\ step' = step + 1
    /\ UNCHANGED << fn, args, registryVars, pipelineVars >>

(* utils.ts, line 36, reached when the loop condition fails *)
ThrowLastException ==
    /\ fn = "retryAsync"
    /\ result.outcome = "pending"
    /\ step >= args.maxAttempts
    /\ result' = [result EXCEPT !.outcome = "thrown"]
    /\ UNCHANGED << fn, args, step, registryVars, pipelineVars >>

NextRetry ==
    \/ CallFn
    \/ ThrowLastException

SpecRetry == InitRetry /\ [][NextRetry]_vars

(* the timer of line 29 fires and fn settles, so the loop goes on *)
SpecRetryFair == SpecRetry /\ WF_vars(NextRetry)

(* the class is one of the listed classes or extends one *)
Listed(class, exceptions) ==
    \E k \in DOMAIN exceptions :
        \/ exceptions[k] = class
        \/ (exceptions[k] = "Error" /\ class \in { "TimeoutError", "RateLimitError" })

(* every call made before call n threw a listed exception *)
RetriedUpTo(n) ==
    \A k \in 1..(n - 1) :
        /\ args.outcomes[k] # CallSucceeds
        /\ Listed(args.outcomes[k], args.exceptions)

(* C28: retryAsync terminates; it calls fn at most maxAttempts times, each
   call after a listed exception; it returns the value of the first
   successful call and makes no call after it; it stops right after the
   first exception that is not listed; and when it fails after a call it
   throws the exception of the last call made *)
C28_RetryTerminatesRethrowsLast ==
    /\ <>(fn = "retryAsync" /\ result.outcome # "pending")
    /\ [](fn = "retryAsync" =>
            /\ result.calls <= args.maxAttempts
            /\ RetriedUpTo(result.calls)
            /\ result.outcome = "returned" =>
                  /\ args.outcomes[result.calls] = CallSucceeds
                  /\ result.value = result.calls
            /\ (result.outcome = "thrown" /\ result.calls > 0) =>
                  /\ args.outcomes[result.calls] # CallSucceeds
                  /\ result.exception =
                        [class |-> args.outcomes[result.calls], call |-> result.calls]
                  /\ \/ result.calls = args.maxAttempts
                     \/ ~Listed(args.outcomes[result.calls], args.exceptions)
            /\ (result.outcome = "thrown" /\ result.calls = 0) => args.maxAttempts = 0)
    /\ [][(fn = "retryAsync" /\ result.outcome # "pending") => result' = result]_vars

(* with three attempts allowed and [Error] listed, the first call threw a
   TimeoutError, the second a string, and the string was thrown after two
   calls *)
C28_Witness ==
    /\ fn = "retryAsync"
    /\ args.maxAttempts = 3
    /\ args.exceptions = << "Error" >>
    /\ args.outcomes[1] = "TimeoutError"
    /\ args.outcomes[2] = "string"
    /\ result.outcome = "thrown"
    /\ result.calls = 2
    /\ result.exception = [class |-> "string", call |-> 2]

-----------------------------------------------------------------------------
(* The counters of a list or single run *)

ListOrSingle == pageResult.kind \in {"list", "single"}

Counted == diagnostics.itemsParsed + diagnostics.itemsFailed

(* the handler is done with candidate i: it counted it, or an exception of
   the parser left extract *)
CandidateHandled == pc = "parse" /\ pc' # "parse"

(* C29: in a list or single run every candidate is counted exactly once, as
   parsed or as failed: while the handler runs the two counters add up to
   the candidates handled and itemsParsed is the number of items pushed;
   when the handler has returned, and on return from extract, itemsParsed +
   itemsFailed = itemsFound, with itemsParsed the number of parsed items
   before deduplication *)
C29_EveryCandidateCountedOnce ==
    /\ []((ListOrSingle /\ pc \in {"extractText", "extract", "parse"}) =>
            /\ Counted = i - 1
            /\ diagnostics.itemsParsed = Len(items))
    /\ []((ListOrSingle /\ pc = "Deduplicate") =>
            /\ Counted = diagnostics.itemsFound
            /\ diagnostics.itemsParsed = Len(items))
    /\ []((ListOrSingle /\ pc \in {"Capture", "Return", "Done"}) =>
            /\ Counted = diagnostics.itemsFound
            /\ diagnostics.itemsParsed >= Len(items))
    /\ [][(ListOrSingle /\ CandidateHandled /\ pc' # "Thrown") =>
            /\ Counted' = Counted + 1
            /\ diagnostics'.itemsParsed - diagnostics.itemsParsed = Len(items') - Len(items)
            /\ diagnostics'.itemsFound = diagnostics.itemsFound]_vars

(* a list run of two candidates returned: both were parsed and
   deduplication left one item *)
C29_Witness ==
    /\ pc = "Done"
    /\ pageResult = [kind |-> "list", n |-> 2]
    /\ diagnostics.itemsFound = 2
    /\ diagnostics.itemsParsed = 2
    /\ diagnostics.itemsFailed = 0
    /\ Len(items) = 1

-----------------------------------------------------------------------------
(* diagnostics.textExtractorUsed *)

Used == diagnostics.textExtractorUsed

(* extractText returns an extraction for the candidate at hand in this step *)
ExtractionReturned == pc # "parse" /\ pc' = "parse" /\ extracted' # Null

(* no candidate of the run has yielded an extraction so far: the parser is
   called for every extraction and, in a list or single run, for nothing
   else *)
NoExtractionYet == calls.parse = 0 /\ extracted = Null

(* C30: textExtractorUsed is written at most once per run, when extractText
   first returns an extraction: it becomes the name of the extractor whose
   extraction met the threshold, or 'low-confidence-fallback' when the
   extraction returned is the best one below the threshold; later
   candidates never change it; it is null exactly when no candidate has
   yielded an extraction, and it stays null in a raw run *)
C30_ExtractorUsedWrittenOnce ==
    /\ [][Used # "null" => Used' = Used]_vars
    /\ [][(Used = "null" /\ ExtractionReturned) =>
            Used' = IF extracted'.confidence >= Threshold
                    THEN extracted'.by
                    ELSE "low-confidence-fallback"]_vars
    /\ [][Used' # Used => ExtractionReturned]_vars
    /\ [](pageResult.kind \in {"none", "list", "single"} =>
            (Used = "null" <=> NoExtractionYet))
    /\ [](pageResult.kind \in {"raw", "throw"} => Used = "null")

(* the first candidate was served by the fallback and the extraction of
   the second one by aria met the threshold: the field keeps the fallback *)
C30_Witness ==
    /\ pc = "parse"
    /\ i = 2
    /\ extracted # Null
    /\ extracted.by = "aria"
    /\ extracted.confidence >= Threshold
    /\ Used = "low-confidence-fallback"

====
